---- MODULE Spec2Model ----
(***************************************************************************)
(* In-memory reference repositories of trading_data_adapter               *)
(* (adapters/stub/stub_repository.py), the derivation of schema and        *)
(* namespace (config.py) and the facade over the repositories              *)
(* (factory.py), modelled as a state machine.                              *)
(*                                                                         *)
(* Strings are sequences of one-character strings, so that int(), str()    *)
(* and fnmatch() are computed the way the code computes them.  A Python    *)
(* dict is a function on its keys; the order in which a dict yields its    *)
(* entries is kept for the trades (trades_order), whose listing is sorted  *)
(* stably, and a list built from any other dict is the set of its          *)
(* elements.  Optional[T] is <<>> (None) or <<x>>.  Time is                *)
(* counted in clock ticks, with TicksPerSecond ticks to the second, so     *)
(* that sub-second remainders exist.                                       *)
(*                                                                         *)
(* Each repository class reads and writes only its own dict attribute, so  *)
(* a behaviour drives the instance of one repository kind (variable kind), *)
(* or constructs one AdapterConfig or two, or drives one                   *)
(* TradingDataAdapter, or runs two tasks that increment a cache counter.   *)
(***************************************************************************)
EXTENDS Integers, Sequences, FiniteSets, TLC

VARIABLES
    kind,        \* the repository class whose instance this behaviour drives
    now,         \* datetime.now(UTC), in ticks
    strategies,  \* StubStrategiesRepository._strategies : strategy_id -> Strategy
    orders,      \* StubOrdersRepository._orders : order_id -> Order
    trades,      \* StubTradesRepository._trades : trade_id -> Trade
    positions,   \* StubPositionsRepository._positions : position_id -> Position
    services,    \* StubServiceDiscoveryRepository._services : service_id -> ServiceInfo
    cache,       \* StubCacheRepository._cache : key -> (value, expires_at)
    ret,         \* the call that completed in the last step and what it returned
    lastWrite,   \* history: per cache key, the last call that wrote or removed its value
    lastExpire,  \* history: per cache key, the expire() that took effect since lastWrite
    trades_order, \* the keys of StubTradesRepository._trades, in insertion order
    config,      \* the fields of the AdapterConfig this behaviour constructs, if any
    adapter,     \* TradingDataAdapter: connection_status, connections, repositories
    tasks,       \* the asyncio tasks that call increment(), and the one that runs
    objects      \* the Strategy objects a caller holds, and two repositories storing them

vars == <<kind, now, strategies, orders, trades, positions, services, cache, ret,
          lastWrite, lastExpire, trades_order, config,
                adapter, tasks, objects>>

----------------------------------------------------------------------------
(* Bounds of the model *)

MaxTime == 3          \* the clock stops after this many ticks
TicksPerSecond == 2   \* clock resolution
MaxCounter == 1       \* |value| an increment may produce

----------------------------------------------------------------------------
(* Optional values *)

None == <<>>
Some(x) == <<x>>
IsSome(o) == o # <<>>
The(o) == o[1]

----------------------------------------------------------------------------
(* Python dict: a function on its keys *)

DictHas(d, key) == key \in DOMAIN d
DictSet(d, key, val) ==
    [x \in DOMAIN d \cup {key} |-> IF x = key THEN val ELSE d[x]]
DictPop(d, key) == [x \in DOMAIN d \ {key} |-> d[x]]
DictValues(d) == {d[x] : x \in DOMAIN d}
EmptyDict == <<>>
\* d[key] = val, seen from the order in which d yields its keys: a new key
\* goes last, a key already there keeps its place
DictSetOrder(d, order, key) == IF DictHas(d, key) THEN order ELSE Append(order, key)

----------------------------------------------------------------------------
(* int(str) and str(int) *)

Digits == <<"0", "1", "2", "3", "4", "5", "6", "7", "8", "9">>
IsDigit(c) == \E d \in 1..10 : Digits[d] = c
DigitVal(c) == (CHOOSE d \in 1..10 : Digits[d] = c) - 1

RECURSIVE DigitsVal(_)
DigitsVal(s) ==
    IF s = <<>> THEN 0
    ELSE 10 * DigitsVal(SubSeq(s, 1, Len(s) - 1)) + DigitVal(s[Len(s)])

Unsigned(s) == IF s # <<>> /\ s[1] \in {"-", "+"} THEN Tail(s) ELSE s

\* int(s) raises ValueError unless s is an optionally signed run of digits
IsIntLiteral(s) ==
    /\ Unsigned(s) # <<>>
    /\ \A i \in 1..Len(Unsigned(s)) : IsDigit(Unsigned(s)[i])

ParseInt(s) ==
    IF s[1] = "-" THEN 0 - DigitsVal(Unsigned(s)) ELSE DigitsVal(Unsigned(s))

RECURSIVE NatStr(_)
NatStr(n) ==
    IF n < 10 THEN <<Digits[n + 1]>>
    ELSE Append(NatStr(n \div 10), Digits[(n % 10) + 1])

Str(n) == IF n < 0 THEN <<"-">> \o NatStr(0 - n) ELSE NatStr(n)

----------------------------------------------------------------------------
(* fnmatch.fnmatch(name, pat): *, ?, [seq], [!seq]; a [ that no ] closes   *)
(* is a literal.  Ranges inside a class are not modelled.                  *)

\* index of the ] closing the class opened at pat[1] = "[", or 0
ClassEnd(pat) ==
    LET n == Len(pat)
        j0 == IF n >= 2 /\ pat[2] = "!" THEN 3 ELSE 2
        j1 == IF j0 <= n /\ pat[j0] = "]" THEN j0 + 1 ELSE j0
        closing == {j \in j1..n : pat[j] = "]"}
    IN  IF closing = {} THEN 0
        ELSE CHOOSE j \in closing : \A m \in closing : j <= m

InClass(c, pat) ==
    LET e == ClassEnd(pat)
        neg == pat[2] = "!"
        members == {pat[j] : j \in (IF neg THEN 3 ELSE 2)..(e - 1)}
    IN  IF neg THEN c \notin members ELSE c \in members

RECURSIVE fnmatch(_, _)
fnmatch(name, pat) ==
    IF pat = <<>> THEN name = <<>>
    ELSE IF pat[1] = "*"
        THEN \/ fnmatch(name, Tail(pat))
             \/ name # <<>> /\ fnmatch(Tail(name), pat)
    ELSE IF name = <<>> THEN FALSE
    ELSE IF pat[1] = "?" THEN fnmatch(Tail(name), Tail(pat))
    ELSE IF pat[1] = "[" /\ ClassEnd(pat) > 0
        THEN /\ InClass(name[1], pat)
             /\ fnmatch(Tail(name), SubSeq(pat, ClassEnd(pat) + 1, Len(pat)))
    ELSE name[1] = pat[1] /\ fnmatch(Tail(name), Tail(pat))

----------------------------------------------------------------------------
(* The call record of an entity repository: what was called, on which id,   *)
(* whether the id was stored when the call began, and what came back.       *)

Called(op, id, store) ==
    [op |-> op, id |-> id, found |-> DictHas(store, id), raised |-> ""]
Returned(op, id, store, val) ==
    [op |-> op, id |-> id, found |-> DictHas(store, id), raised |-> "", val |-> val]
Raised(op, id, store, exception) ==
    [op |-> op, id |-> id, found |-> DictHas(store, id), raised |-> exception]

\* dict.get(key)
DictLookup(d, key) == IF DictHas(d, key) THEN Some(d[key]) ELSE None

StrategyIds == {"s1", "s2"}

----------------------------------------------------------------------------
(* StubStrategiesRepository *)

StrategyStatuses == {"active", "paused"}
PnlInputs == {0, 1}
StrategyInputs ==
    [strategy_id : StrategyIds, status : StrategyStatuses, total_pnl : PnlInputs]

StrategiesFrame ==
    UNCHANGED <<kind, now, orders, trades, positions, services, cache,
                lastWrite, lastExpire, trades_order, config,
                adapter, tasks, objects>>

Strategies_create(strategy) ==
    /\ kind = "strategies"
    /\ strategies' = DictSet(strategies, strategy.strategy_id, strategy)
    /\ ret' = Called("create", strategy.strategy_id, strategies)
                @@ [entity |-> strategy]
    /\ StrategiesFrame

Strategies_get_by_id(strategy_id) ==
    /\ kind = "strategies"
    /\ ret' = Returned("get_by_id", strategy_id, strategies,
                       DictLookup(strategies, strategy_id))
    /\ UNCHANGED strategies
    /\ StrategiesFrame

\* mutant: update() that stores the strategy whether or not its id is known
Strategies_update_upsert(strategy) ==
    /\ kind = "strategies"
    /\ strategies' = DictSet(strategies, strategy.strategy_id, strategy)
    /\ ret' = Called("update", strategy.strategy_id, strategies)
    /\ StrategiesFrame

Strategies_update(strategy) ==
    /\ kind = "strategies"
    /\ strategies' = IF DictHas(strategies, strategy.strategy_id)
                     THEN DictSet(strategies, strategy.strategy_id, strategy)
                     ELSE strategies
    /\ ret' = Called("update", strategy.strategy_id, strategies)
    /\ StrategiesFrame

Strategies_delete(strategy_id) ==
    /\ kind = "strategies"
    /\ strategies' = DictPop(strategies, strategy_id)
    /\ ret' = Called("delete", strategy_id, strategies)
    /\ StrategiesFrame

Strategies_update_status(strategy_id, status) ==
    /\ kind = "strategies"
    /\ strategies' = IF DictHas(strategies, strategy_id)
                     THEN [strategies EXCEPT ![strategy_id].status = status]
                     ELSE strategies
    /\ ret' = Called("update_status", strategy_id, strategies)
    /\ StrategiesFrame

Strategies_update_pnl(strategy_id, pnl) ==
    /\ kind = "strategies"
    /\ strategies' = IF DictHas(strategies, strategy_id)
                     THEN [strategies EXCEPT ![strategy_id].total_pnl = pnl]
                     ELSE strategies
    /\ ret' = Called("update_pnl", strategy_id, strategies)
    /\ StrategiesFrame

NextStrategies ==
    \/ \E strategy \in StrategyInputs : Strategies_create(strategy)
    \/ \E strategy_id \in StrategyIds : Strategies_get_by_id(strategy_id)
    \/ \E strategy \in StrategyInputs : Strategies_update(strategy)
    \/ \E strategy_id \in StrategyIds : Strategies_delete(strategy_id)
    \/ \E strategy_id \in StrategyIds, status \in StrategyStatuses :
            Strategies_update_status(strategy_id, status)
    \/ \E strategy_id \in StrategyIds, pnl \in PnlInputs :
            Strategies_update_pnl(strategy_id, pnl)

----------------------------------------------------------------------------
(* StubOrdersRepository *)

OrderIds == {"o1", "o2"}
OrderStatuses == {"pending", "submitted", "accepted", "partially_filled",
                  "filled", "cancelled", "rejected", "expired"}
\* an Order as its caller builds it: nothing filled, not cancelled
OrderInputs ==
    [order_id : OrderIds, strategy_id : StrategyIds, status : OrderStatuses,
     filled_quantity : {0}, average_fill_price : {None}, cancelled_at : {None}]
FillInputs == {[filled_quantity |-> 1, average_price |-> 1]}
CancelInstants == {1}

OrdersFrame ==
    UNCHANGED <<kind, now, strategies, trades, positions, services, cache,
                lastWrite, lastExpire, trades_order, config,
                adapter, tasks, objects>>

Orders_create(order) ==
    /\ kind = "orders"
    /\ orders' = DictSet(orders, order.order_id, order)
    /\ ret' = Called("create", order.order_id, orders) @@ [entity |-> order]
    /\ OrdersFrame

Orders_get_by_id(order_id) ==
    /\ kind = "orders"
    /\ ret' = Returned("get_by_id", order_id, orders, DictLookup(orders, order_id))
    /\ UNCHANGED orders
    /\ OrdersFrame

Orders_update(order) ==
    /\ kind = "orders"
    /\ orders' = IF DictHas(orders, order.order_id)
                 THEN DictSet(orders, order.order_id, order)
                 ELSE orders
    /\ ret' = Called("update", order.order_id, orders)
    /\ OrdersFrame

Orders_update_status(order_id, status) ==
    /\ kind = "orders"
    /\ orders' = IF DictHas(orders, order_id)
                 THEN [orders EXCEPT ![order_id].status = status]
                 ELSE orders
    /\ ret' = Called("update_status", order_id, orders)
    /\ OrdersFrame

\* mutant: "accepted" left out of the active statuses
ActiveStatuses_NoAccepted == {"pending", "submitted", "partially_filled"}

ActiveStatuses == {"pending", "submitted", "accepted", "partially_filled"}

\* get_active_orders(strategy_id): `if strategy_id:` is false for None
ActiveOrders(d, strategy_id) ==
    IF IsSome(strategy_id) /\ The(strategy_id) # ""
    THEN {o \in DictValues(d) : o.status \in ActiveStatuses
                                /\ o.strategy_id = The(strategy_id)}
    ELSE {o \in DictValues(d) : o.status \in ActiveStatuses}

Orders_get_active_orders(strategy_id) ==
    /\ kind = "orders"
    /\ ret' = [op |-> "get_active_orders", strategy_id |-> strategy_id,
               raised |-> "", list |-> ActiveOrders(orders, strategy_id)]
    /\ UNCHANGED orders
    /\ OrdersFrame

Orders_update_fill(order_id, filled_quantity, average_price) ==
    /\ kind = "orders"
    /\ orders' = IF DictHas(orders, order_id)
                 THEN [orders EXCEPT
                         ![order_id].filled_quantity = filled_quantity,
                         ![order_id].average_fill_price = Some(average_price)]
                 ELSE orders
    /\ ret' = Called("update_fill", order_id, orders)
    /\ OrdersFrame

Orders_cancel(order_id) ==
    /\ kind = "orders"
    /\ orders' = IF DictHas(orders, order_id)
                 THEN [orders EXCEPT ![order_id].status = "cancelled"]
                 ELSE orders
    /\ ret' = Called("cancel", order_id, orders)
    /\ OrdersFrame

\* mutant: delete() that empties the dict
Orders_delete_all(order_id) ==
    /\ kind = "orders"
    /\ orders' = EmptyDict
    /\ ret' = Called("delete", order_id, orders)
    /\ OrdersFrame

Orders_delete(order_id) ==
    /\ kind = "orders"
    /\ orders' = DictPop(orders, order_id)
    /\ ret' = Called("delete", order_id, orders)
    /\ OrdersFrame

\* cancel_order(order_id, cancelled_at): the module never imports OrderStatus,
\* so evaluating OrderStatus.CANCELLED raises NameError before anything is
\* assigned; the name is only evaluated when the id is stored
Orders_cancel_order(order_id, cancelled_at) ==
    /\ kind = "orders"
    /\ ret' = (IF DictHas(orders, order_id)
               THEN Raised("cancel_order", order_id, orders, "NameError")
               ELSE Called("cancel_order", order_id, orders))
              @@ [cancelled_at |-> cancelled_at]
    /\ UNCHANGED orders
    /\ OrdersFrame

NextOrders ==
    \/ \E order \in OrderInputs : Orders_create(order)
    \/ \E order_id \in OrderIds : Orders_get_by_id(order_id)
    \/ \E order \in OrderInputs : Orders_update(order)
    \/ \E order_id \in OrderIds, status \in OrderStatuses :
            Orders_update_status(order_id, status)
    \/ \E strategy_id \in {None} \cup {Some(x) : x \in StrategyIds} :
            Orders_get_active_orders(strategy_id)
    \/ \E order_id \in OrderIds, fill \in FillInputs :
            Orders_update_fill(order_id, fill.filled_quantity, fill.average_price)
    \/ \E order_id \in OrderIds : Orders_cancel(order_id)
    \/ \E order_id \in OrderIds : Orders_delete(order_id)
    \/ \E order_id \in OrderIds, cancelled_at \in CancelInstants :
            Orders_cancel_order(order_id, cancelled_at)

----------------------------------------------------------------------------
(* StubTradesRepository *)

TradeIds == {"t1", "t2"}
\* a trade either opens a position (no realized P&L) or closes one at a loss
TradeValues ==
    {[gross_value |-> 1, realized_pnl |-> None],
     [gross_value |-> 2, realized_pnl |-> Some(0 - 1)]}
TradeInputs ==
    {[trade_id |-> id, strategy_id |-> s, executed_at |-> e,
      gross_value |-> v.gross_value, realized_pnl |-> v.realized_pnl] :
        id \in TradeIds, s \in StrategyIds, e \in {1, 2, 3}, v \in TradeValues}
\* from_date and to_date: omitted, or an instant
DateBounds == {None, Some(1), Some(2), Some(3)}
LimitInputs == {0 - 1, 0, 1, 3}
DaysInputs == {1}

TradesFrame ==
    UNCHANGED <<kind, now, strategies, orders, positions, services, cache,
                lastWrite, lastExpire, config,
                adapter, tasks, objects>>

Trades_create(trade) ==
    /\ kind = "trades"
    /\ trades' = DictSet(trades, trade.trade_id, trade)
    /\ trades_order' = DictSetOrder(trades, trades_order, trade.trade_id)
    /\ ret' = Called("create", trade.trade_id, trades) @@ [entity |-> trade]
    /\ TradesFrame

Trades_get_by_id(trade_id) ==
    /\ kind = "trades"
    /\ ret' = Returned("get_by_id", trade_id, trades, DictLookup(trades, trade_id))
    /\ UNCHANGED <<trades, trades_order>>
    /\ TradesFrame

\* list(self._trades.values()): the stored trades in insertion order
TradesList == [i \in 1..Len(trades_order) |-> trades[trades_order[i]]]

\* get_by_strategy(strategy_id)
TradesByStrategy(strategy_id) ==
    SelectSeq(TradesList, LAMBDA t : t.strategy_id = strategy_id)

\* mutant: the range open at its lower end
InDateRange_Exclusive(t, from_date, to_date) ==
    /\ IsSome(from_date) => t.executed_at > The(from_date)
    /\ IsSome(to_date) => t.executed_at <= The(to_date)

\* the two filters `if from_date:` and `if to_date:` (a datetime is truthy)
InDateRange(t, from_date, to_date) ==
    /\ IsSome(from_date) => t.executed_at >= The(from_date)
    /\ IsSome(to_date) => t.executed_at <= The(to_date)

TradesInRange(strategy_id, from_date, to_date) ==
    SelectSeq(TradesByStrategy(strategy_id),
              LAMBDA t : InDateRange(t, from_date, to_date))

\* t.realized_pnl or 0
RealizedOrZero(t) ==
    IF IsSome(t.realized_pnl) /\ The(t.realized_pnl) # 0
    THEN The(t.realized_pnl) ELSE 0

\* sum(...) over a list of numbers
RECURSIVE SumSeq(_)
SumSeq(numbers) ==
    IF numbers = <<>> THEN 0 ELSE Head(numbers) + SumSeq(Tail(numbers))

\* float(total) is exact on the integers the model sums
Trades_calculate_total_volume(strategy_id, from_date, to_date) ==
    /\ kind = "trades"
    /\ ret' = [op |-> "calculate_total_volume", strategy_id |-> strategy_id,
               from_date |-> from_date, to_date |-> to_date, raised |-> "",
               val |-> LET list == TradesInRange(strategy_id, from_date, to_date)
                       IN  SumSeq([i \in 1..Len(list) |-> list[i].gross_value])]
    /\ UNCHANGED <<trades, trades_order>>
    /\ TradesFrame

Trades_calculate_total_pnl(strategy_id, from_date, to_date) ==
    /\ kind = "trades"
    /\ ret' = [op |-> "calculate_total_pnl", strategy_id |-> strategy_id,
               from_date |-> from_date, to_date |-> to_date, raised |-> "",
               val |-> LET list == TradesInRange(strategy_id, from_date, to_date)
                       IN  SumSeq([i \in 1..Len(list) |-> RealizedOrZero(list[i])])]
    /\ UNCHANGED <<trades, trades_order>>
    /\ TradesFrame

\* mutant: the trade goes before the trades executed at the same instant
InsertDesc_TiesFirst(sorted_trades, t) ==
    LET later == SelectSeq(sorted_trades, LAMBDA u : u.executed_at > t.executed_at)
        rest == SelectSeq(sorted_trades, LAMBDA u : u.executed_at <= t.executed_at)
    IN  later \o <<t>> \o rest

\* sorted(..., key=executed_at, reverse=True) is stable: the next trade of the
\* list goes after every trade executed at the same instant or later
InsertDesc(sorted_trades, t) ==
    LET kept == SelectSeq(sorted_trades, LAMBDA u : u.executed_at >= t.executed_at)
        rest == SelectSeq(sorted_trades, LAMBDA u : u.executed_at < t.executed_at)
    IN  kept \o <<t>> \o rest

RECURSIVE SortedDesc(_)
SortedDesc(list) ==
    IF list = <<>> THEN <<>>
    ELSE InsertDesc(SortedDesc(SubSeq(list, 1, Len(list) - 1)), list[Len(list)])

\* list[:limit]; a negative limit counts from the end
Slice(list, limit) ==
    IF limit >= 0
    THEN SubSeq(list, 1, IF limit < Len(list) THEN limit ELSE Len(list))
    ELSE SubSeq(list, 1, IF Len(list) + limit > 0 THEN Len(list) + limit ELSE 0)

Trades_get_recent_trades(limit) ==
    /\ kind = "trades"
    /\ ret' = [op |-> "get_recent_trades", limit |-> limit, raised |-> "",
               list |-> Slice(SortedDesc(TradesList), limit)]
    /\ UNCHANGED <<trades, trades_order>>
    /\ TradesFrame

Trades_cleanup_old_trades(days) ==
    /\ kind = "trades"
    /\ ret' = [op |-> "cleanup_old_trades", days |-> days, raised |-> "", val |-> 0]
    /\ UNCHANGED <<trades, trades_order>>
    /\ TradesFrame

NextTrades ==
    \/ \E trade \in TradeInputs : Trades_create(trade)
    \/ \E trade_id \in TradeIds : Trades_get_by_id(trade_id)
    \/ \E strategy_id \in StrategyIds, from_date \in DateBounds, to_date \in DateBounds :
            Trades_calculate_total_volume(strategy_id, from_date, to_date)
    \/ \E strategy_id \in StrategyIds, from_date \in DateBounds, to_date \in DateBounds :
            Trades_calculate_total_pnl(strategy_id, from_date, to_date)
    \/ \E limit \in LimitInputs : Trades_get_recent_trades(limit)
    \/ \E days \in DaysInputs : Trades_cleanup_old_trades(days)

----------------------------------------------------------------------------
(* StubPositionsRepository *)

PositionIds == {"p1", "p2"}
Abs(x) == IF x < 0 THEN 0 - x ELSE x

\* a Position as its caller builds it, the derived fields consistent
MkPosition(position_id, strategy_id, quantity, entry, price) ==
    [position_id |-> position_id, strategy_id |-> strategy_id,
     quantity |-> quantity, average_entry_price |-> entry,
     current_price |-> price, market_value |-> quantity * price,
     unrealized_pnl |-> (price - entry) * quantity, realized_pnl |-> 0,
     total_pnl |-> (price - entry) * quantity,
     exposure |-> Abs(quantity) * price, closed_at |-> None]
\* p1 is long or short in s1; p2 is long or flat, in either strategy
PositionInputs ==
    {MkPosition("p1", "s1", q, 1, 1) : q \in {0 - 1, 2}}
    \cup {MkPosition("p2", s, q, 1, 1) : s \in StrategyIds, q \in {0, 2}}
\* the strategy_id argument of the listings and aggregates: omitted or given
StrategyFilters == {None} \cup {Some(s) : s \in StrategyIds}
PriceInputs == {1, 2}
ClosedInstants == {1}

PositionsFrame ==
    UNCHANGED <<kind, now, strategies, orders, trades, services, cache,
                lastWrite, lastExpire, trades_order, config,
                adapter, tasks, objects>>

Positions_create(position) ==
    /\ kind = "positions"
    /\ positions' = DictSet(positions, position.position_id, position)
    /\ ret' = Called("create", position.position_id, positions)
                @@ [entity |-> position]
    /\ PositionsFrame

Positions_get_by_id(position_id) ==
    /\ kind = "positions"
    /\ ret' = Returned("get_by_id", position_id, positions,
                       DictLookup(positions, position_id))
    /\ UNCHANGED positions
    /\ PositionsFrame

Positions_update(position) ==
    /\ kind = "positions"
    /\ positions' = IF DictHas(positions, position.position_id)
                    THEN DictSet(positions, position.position_id, position)
                    ELSE positions
    /\ ret' = Called("update", position.position_id, positions)
    /\ PositionsFrame

Positions_delete(position_id) ==
    /\ kind = "positions"
    /\ positions' = DictPop(positions, position_id)
    /\ ret' = Called("delete", position_id, positions)
    /\ PositionsFrame

Positions_update_price(position_id, current_price) ==
    /\ kind = "positions"
    /\ positions' = IF DictHas(positions, position_id)
                    THEN [positions EXCEPT ![position_id].current_price = current_price]
                    ELSE positions
    /\ ret' = Called("update_price", position_id, positions)
    /\ PositionsFrame

Positions_update_pnl(position_id, realized_pnl, unrealized_pnl) ==
    /\ kind = "positions"
    /\ positions' = IF DictHas(positions, position_id)
                    THEN [positions EXCEPT
                            ![position_id].realized_pnl = realized_pnl,
                            ![position_id].unrealized_pnl = unrealized_pnl]
                    ELSE positions
    /\ ret' = Called("update_pnl", position_id, positions)
    /\ PositionsFrame

\* mutant: exposure recomputed with the sign of the quantity
MarketData_SignedExposure(pos, current_price) ==
    LET unrealized_pnl == (current_price - pos.average_entry_price) * pos.quantity
    IN  [pos EXCEPT !.current_price = current_price,
                    !.market_value = pos.quantity * current_price,
                    !.unrealized_pnl = unrealized_pnl,
                    !.total_pnl = pos.realized_pnl + unrealized_pnl,
                    !.exposure = pos.quantity * current_price]

\* update_market_data: the fields recomputed for the position pos
MarketData(pos, current_price) ==
    LET unrealized_pnl == (current_price - pos.average_entry_price) * pos.quantity
    IN  [pos EXCEPT !.current_price = current_price,
                    !.market_value = pos.quantity * current_price,
                    !.unrealized_pnl = unrealized_pnl,
                    !.total_pnl = pos.realized_pnl + unrealized_pnl,
                    !.exposure = Abs(pos.quantity) * current_price]

Positions_update_market_data(position_id, current_price) ==
    /\ kind = "positions"
    /\ positions' = IF DictHas(positions, position_id)
                    THEN [positions EXCEPT
                            ![position_id] = MarketData(@, current_price)]
                    ELSE positions
    /\ ret' = Called("update_market_data", position_id, positions)
                @@ [current_price |-> current_price]
    /\ PositionsFrame

Positions_close_position(position_id, closed_at) ==
    /\ kind = "positions"
    /\ positions' = IF DictHas(positions, position_id)
                    THEN [positions EXCEPT ![position_id].closed_at = Some(closed_at)]
                    ELSE positions
    /\ ret' = Called("close_position", position_id, positions)
    /\ PositionsFrame

\* sum(p.field for p in list)
RECURSIVE SumField(_, _)
SumField(list, field) ==
    IF list = {} THEN 0
    ELSE LET p == CHOOSE p \in list : TRUE
         IN  p[field] + SumField(list \ {p}, field)

\* get_open_positions(strategy_id): `if strategy_id:` is false for None
OpenPositions(d, strategy_id) ==
    IF IsSome(strategy_id) /\ The(strategy_id) # ""
    THEN {p \in DictValues(d) : p.quantity # 0 /\ p.strategy_id = The(strategy_id)}
    ELSE {p \in DictValues(d) : p.quantity # 0}

Positions_get_open_positions(strategy_id) ==
    /\ kind = "positions"
    /\ ret' = [op |-> "get_open_positions", strategy_id |-> strategy_id,
               raised |-> "", list |-> OpenPositions(positions, strategy_id)]
    /\ UNCHANGED positions
    /\ PositionsFrame

\* float(total) is exact on the integers the model sums
Positions_calculate_total_exposure(strategy_id) ==
    /\ kind = "positions"
    /\ ret' = [op |-> "calculate_total_exposure", strategy_id |-> strategy_id,
               raised |-> "",
               val |-> SumField(OpenPositions(positions, strategy_id), "exposure")]
    /\ UNCHANGED positions
    /\ PositionsFrame

Positions_calculate_total_unrealized_pnl(strategy_id) ==
    /\ kind = "positions"
    /\ ret' = [op |-> "calculate_total_unrealized_pnl", strategy_id |-> strategy_id,
               raised |-> "",
               val |-> SumField(OpenPositions(positions, strategy_id),
                                "unrealized_pnl")]
    /\ UNCHANGED positions
    /\ PositionsFrame

NextPositions ==
    \/ \E position \in PositionInputs : Positions_create(position)
    \/ \E position_id \in PositionIds : Positions_get_by_id(position_id)
    \/ \E position \in PositionInputs : Positions_update(position)
    \/ \E position_id \in PositionIds : Positions_delete(position_id)
    \/ \E position_id \in PositionIds, price \in PriceInputs :
            Positions_update_price(position_id, price)
    \/ \E position_id \in PositionIds, pnl \in PnlInputs :
            Positions_update_pnl(position_id, pnl, pnl)
    \/ \E position_id \in PositionIds, price \in PriceInputs :
            Positions_update_market_data(position_id, price)
    \/ \E position_id \in PositionIds, closed_at \in ClosedInstants :
            Positions_close_position(position_id, closed_at)
    \/ \E strategy_id \in StrategyFilters : Positions_get_open_positions(strategy_id)
    \/ \E strategy_id \in StrategyFilters :
            Positions_calculate_total_exposure(strategy_id)
    \/ \E strategy_id \in StrategyFilters :
            Positions_calculate_total_unrealized_pnl(strategy_id)

----------------------------------------------------------------------------
(* StubServiceDiscoveryRepository *)

ServiceIds == {"a", "b"}
ServiceStatuses == {"healthy", "degraded"}
\* a ServiceInfo as its caller builds it: seen now or earlier
ServiceInputs ==
    [service_id : ServiceIds, service_name : {"svc"}, status : ServiceStatuses,
     last_seen : 0..now]

ServicesFrame ==
    UNCHANGED <<kind, now, strategies, orders, trades, positions, cache,
                lastWrite, lastExpire, trades_order, config,
                adapter, tasks, objects>>

Services_register(service) ==
    /\ kind = "services"
    /\ services' = DictSet(services, service.service_id, service)
    /\ ret' = Called("register", service.service_id, services)
                @@ [entity |-> service]
    /\ ServicesFrame

Services_deregister(service_id) ==
    /\ kind = "services"
    /\ services' = DictPop(services, service_id)
    /\ ret' = Called("deregister", service_id, services)
    /\ ServicesFrame

\* mutant: a heartbeat that resets last_seen to the epoch
Services_update_heartbeat_Epoch(service_id) ==
    /\ kind = "services"
    /\ services' = IF DictHas(services, service_id)
                   THEN [services EXCEPT ![service_id].last_seen = 0]
                   ELSE services
    /\ ret' = Called("update_heartbeat", service_id, services)
    /\ ServicesFrame

Services_update_heartbeat(service_id) ==
    /\ kind = "services"
    /\ services' = IF DictHas(services, service_id)
                   THEN [services EXCEPT ![service_id].last_seen = now]
                   ELSE services
    /\ ret' = Called("update_heartbeat", service_id, services)
    /\ ServicesFrame

Services_get_service_by_id(service_id) ==
    /\ kind = "services"
    /\ ret' = Returned("get_service_by_id", service_id, services,
                       DictLookup(services, service_id))
    /\ UNCHANGED services
    /\ ServicesFrame

Services_update_status(service_id, status) ==
    /\ kind = "services"
    /\ services' = IF DictHas(services, service_id)
                   THEN [services EXCEPT ![service_id].status = status]
                   ELSE services
    /\ ret' = Called("update_status", service_id, services)
    /\ ServicesFrame

ThresholdInputs == {0, 1}

\* mutant: a service whose age equals the threshold is reaped too
StaleIds_AtThreshold(d, stale_threshold_seconds, t) ==
    {sid \in DOMAIN d :
        t - d[sid].last_seen >= stale_threshold_seconds * TicksPerSecond}

\* (now - svc.last_seen).total_seconds() > stale_threshold_seconds, in ticks
StaleIds(d, stale_threshold_seconds, t) ==
    {sid \in DOMAIN d :
        t - d[sid].last_seen > stale_threshold_seconds * TicksPerSecond}

Services_cleanup_stale_services(stale_threshold_seconds) ==
    LET stale_ids == StaleIds(services, stale_threshold_seconds, now)
    IN  /\ kind = "services"
        /\ services' = [sid \in DOMAIN services \ stale_ids |-> services[sid]]
        /\ ret' = [op |-> "cleanup_stale_services",
                   threshold |-> stale_threshold_seconds, raised |-> "",
                   val |-> Cardinality(stale_ids)]
        /\ ServicesFrame

NextServices ==
    \/ \E service \in ServiceInputs : Services_register(service)
    \/ \E service_id \in ServiceIds : Services_deregister(service_id)
    \/ \E service_id \in ServiceIds : Services_update_heartbeat(service_id)
    \/ \E service_id \in ServiceIds : Services_get_service_by_id(service_id)
    \/ \E service_id \in ServiceIds, status \in ServiceStatuses :
            Services_update_status(service_id, status)
    \/ \E threshold \in ThresholdInputs : Services_cleanup_stale_services(threshold)

----------------------------------------------------------------------------
(* Inputs of the cache operations *)

CacheKeys == {<<"p", "1">>, <<"q", "1">>}
CacheValues == {<<"1">>, <<"x">>}
Patterns == {<<"p", "*">>, <<"?", "1">>, <<"[", "!", "q", "]", "2">>}
SetTtls == {None, Some(0), Some(1)}   \* Optional[int], seconds
ExpireTtls == {1}
Amounts == {1, 2}

Seconds(n) == n * TicksPerSecond               \* timedelta(seconds=n)

----------------------------------------------------------------------------
(* StubCacheRepository: the handlers as functions of the dict and the clock *)

\* mutant: the expiry instant itself still counts as live
Expired_AfterOnly(entry, t) == IsSome(entry.expires_at) /\ t > The(entry.expires_at)

Expired(entry, t) == IsSome(entry.expires_at) /\ ~(t < The(entry.expires_at))

\* get(key): the value returned
GetValue(c, key, t) ==
    IF DictHas(c, key) /\ ~Expired(c[key], t)
    THEN Some(c[key].value)
    ELSE None

\* get(key): the dict afterwards (an expired entry is evicted)
GetEvict(c, key, t) ==
    IF DictHas(c, key) /\ Expired(c[key], t) THEN DictPop(c, key) ELSE c

\* mutant: `if ttl is not None:`, so that ttl = 0 expires at once
SetEntry_ZeroTtlExpires(c, key, value, ttl, t) ==
    LET expires_at == IF IsSome(ttl) THEN Some(t + Seconds(The(ttl))) ELSE None
    IN  DictSet(c, key, [value |-> value, expires_at |-> expires_at])

\* set(key, value, ttl): `if ttl:` is false for None and for 0
SetEntry(c, key, value, ttl, t) ==
    LET expires_at == IF IsSome(ttl) /\ The(ttl) # 0
                      THEN Some(t + Seconds(The(ttl)))
                      ELSE None
    IN  DictSet(c, key, [value |-> value, expires_at |-> expires_at])

\* mutant: a remainder under one second is reported as gone
TtlValue_ZeroIsGone(c, key, t) ==
    IF DictHas(c, key)
    THEN LET expires_at == c[key].expires_at
         IN  IF expires_at = None THEN 0 - 1
             ELSE IF (The(expires_at) - t) \div TicksPerSecond > 0
                  THEN (The(expires_at) - t) \div TicksPerSecond
                  ELSE 0 - 2
    ELSE 0 - 2

\* ttl(key)
TtlValue(c, key, t) ==
    IF DictHas(c, key)
    THEN LET expires_at == c[key].expires_at
         IN  IF expires_at = None THEN 0 - 1
             ELSE IF The(expires_at) - t > 0
                  THEN (The(expires_at) - t) \div TicksPerSecond
                  ELSE 0 - 2
    ELSE 0 - 2

\* expire(key, ttl)
ExpireEntry(c, key, ttl, t) ==
    IF DictHas(c, key)
    THEN DictSet(c, key, [value |-> c[key].value,
                          expires_at |-> Some(t + Seconds(ttl))])
    ELSE c

\* keys(pattern)
MatchingKeys(c, pat) == {key \in DOMAIN c : fnmatch(key, pat)}

\* mutant: stops after the first matching key
DeleteMatching_FirstOnly(c, pat) ==
    IF MatchingKeys(c, pat) = {} THEN c
    ELSE DictPop(c, CHOOSE key \in MatchingKeys(c, pat) : TRUE)

\* delete_pattern(pattern): the dict afterwards
DeleteMatching(c, pat) ==
    [key \in {x \in DOMAIN c : ~fnmatch(x, pat)} |-> c[key]]

\* increment(key, amount): int(current or 0) raises ValueError on a non-integer
IncrementRaises(c, key, t) ==
    LET current == GetValue(c, key, t)
    IN  IsSome(current) /\ The(current) # <<>> /\ ~IsIntLiteral(The(current))

\* mutant: reads the stored value without looking at its expiry
IncrementValue_IgnoresExpiry(c, key, amount, t) ==
    (IF DictHas(c, key) /\ c[key].value # <<>> THEN ParseInt(c[key].value) ELSE 0)
    + amount

IncrementValue(c, key, amount, t) ==
    LET current == GetValue(c, key, t)
    IN  (IF IsSome(current) /\ The(current) # <<>> THEN ParseInt(The(current)) ELSE 0)
        + amount

\* mutant: the write-back keeps the expiry the entry had
WriteBack_KeepsExpiry(c, key, new_value, t) ==
    DictSet(c, key, [value |-> Str(new_value),
                     expires_at |-> IF DictHas(c, key) THEN c[key].expires_at
                                    ELSE None])

\* increment: `await self.set(key, str(new_value))`, after the get
WriteBack(c, key, new_value, t) ==
    SetEntry(GetEvict(c, key, t), key, Str(new_value), None, t)

----------------------------------------------------------------------------
(* History kept for the statements about the cache *)

\* the instant a ttl of n seconds given now runs out
Deadline(ttl) == now + ttl * TicksPerSecond

NoWrite == [op |-> "none", value |-> <<>>, ttl |-> None, deadline |-> None]
Wrote(op, value, ttl) ==
    [op |-> op, value |-> value, ttl |-> ttl,
     deadline |-> IF IsSome(ttl) /\ The(ttl) > 0 THEN Some(Deadline(The(ttl))) ELSE None]

CacheFrame ==
    UNCHANGED <<kind, now, strategies, orders, trades, positions, services,
                trades_order, config,
                adapter, tasks, objects>>

----------------------------------------------------------------------------
(* StubCacheRepository: the operations *)

Cache_get(key) ==
    /\ kind = "cache"
    /\ cache' = GetEvict(cache, key, now)
    /\ ret' = [op |-> "get", key |-> key, val |-> GetValue(cache, key, now)]
    /\ UNCHANGED <<lastWrite, lastExpire>>
    /\ CacheFrame

Cache_set(key, value, ttl) ==
    /\ kind = "cache"
    /\ cache' = SetEntry(cache, key, value, ttl, now)
    /\ ret' = [op |-> "set", key |-> key]
    /\ lastWrite' = [lastWrite EXCEPT ![key] = Wrote("set", value, ttl)]
    /\ lastExpire' = [lastExpire EXCEPT ![key] = None]
    /\ CacheFrame

Cache_delete(key) ==
    /\ kind = "cache"
    /\ cache' = DictPop(cache, key)
    /\ ret' = [op |-> "delete", key |-> key, raised |-> ""]
    /\ lastWrite' = [lastWrite EXCEPT ![key] = Wrote("delete", <<>>, None)]
    /\ lastExpire' = [lastExpire EXCEPT ![key] = None]
    /\ CacheFrame

Cache_exists(key) ==
    /\ kind = "cache"
    /\ cache' = GetEvict(cache, key, now)
    /\ ret' = [op |-> "exists", key |-> key,
               bool |-> GetValue(cache, key, now) # None]
    /\ UNCHANGED <<lastWrite, lastExpire>>
    /\ CacheFrame

Cache_delete_pattern(pat) ==
    /\ kind = "cache"
    /\ cache' = DeleteMatching(cache, pat)
    /\ ret' = [op |-> "delete_pattern", pat |-> pat,
               int |-> Cardinality(MatchingKeys(cache, pat))]
    /\ lastWrite' = [key \in CacheKeys |->
                        IF key \in MatchingKeys(cache, pat)
                        THEN Wrote("delete", <<>>, None)
                        ELSE lastWrite[key]]
    /\ lastExpire' = [key \in CacheKeys |->
                        IF key \in MatchingKeys(cache, pat)
                        THEN None
                        ELSE lastExpire[key]]
    /\ CacheFrame

Cache_keys(pat) ==
    /\ kind = "cache"
    /\ ret' = [op |-> "keys", pat |-> pat, list |-> MatchingKeys(cache, pat)]
    /\ UNCHANGED <<cache, lastWrite, lastExpire>>
    /\ CacheFrame

Cache_ttl(key) ==
    /\ kind = "cache"
    /\ ret' = [op |-> "ttl", key |-> key, int |-> TtlValue(cache, key, now)]
    /\ UNCHANGED <<cache, lastWrite, lastExpire>>
    /\ CacheFrame

Cache_expire(key, ttl) ==
    /\ kind = "cache"
    /\ cache' = ExpireEntry(cache, key, ttl, now)
    /\ ret' = [op |-> "expire", key |-> key, raised |-> ""]
    /\ lastExpire' = IF DictHas(cache, key)
                     THEN [lastExpire EXCEPT ![key] = Some([ttl |-> ttl, deadline |-> Deadline(ttl)])]
                     ELSE lastExpire
    /\ UNCHANGED lastWrite
    /\ CacheFrame

\* increment(key, amount) with sign = 1; decrement(key, amount) is
\* increment(key, -amount), sign = -1
IncrementBy(op, key, amount, sign) ==
    LET new_value == IncrementValue(cache, key, sign * amount, now)
        before == [read |-> GetValue(cache, key, now),
                   had_expiry |-> DictHas(cache, key)
                                  /\ IsSome(cache[key].expires_at)]
    IN  IF IncrementRaises(cache, key, now)
        THEN /\ ret' = [op |-> op, key |-> key, amount |-> amount,
                        raised |-> "ValueError", before |-> before]
             /\ UNCHANGED <<cache, lastWrite, lastExpire>>
        ELSE /\ new_value <= MaxCounter /\ 0 - new_value <= MaxCounter
             /\ cache' = WriteBack(cache, key, new_value, now)
             /\ ret' = [op |-> op, key |-> key, amount |-> amount,
                        raised |-> "", int |-> new_value, before |-> before]
             /\ lastWrite' = [lastWrite EXCEPT
                                ![key] = Wrote("increment", Str(new_value), None)]
             /\ lastExpire' = [lastExpire EXCEPT ![key] = None]

Cache_increment(key, amount) ==
    /\ kind = "cache"
    /\ IncrementBy("increment", key, amount, 1)
    /\ CacheFrame

Cache_decrement(key, amount) ==
    /\ kind = "cache"
    /\ IncrementBy("decrement", key, amount, 0 - 1)
    /\ CacheFrame

\* time passes between two calls (the cache and the service registry read
\* the clock)
Tick ==
    /\ kind \in {"cache", "services"}
    /\ now < MaxTime
    /\ now' = now + 1
    /\ ret' = [op |-> "tick"]
    /\ UNCHANGED <<kind, strategies, orders, trades, positions, services, cache,
                   lastWrite, lastExpire, trades_order, config,
                adapter, tasks, objects>>

----------------------------------------------------------------------------
(* AdapterConfig (config.py): the derivation of schema and namespace *)

MaxNameLen == 3       \* longest service_name
MaxInstanceLen == 5   \* longest service_instance_name
MaxPairLen == 3       \* longest instance name of two configurations compared
MaxInstances == 2     \* repository instances of one kind an adapter may construct

Alphabet == {"a", "A", "-"}
Strings(n) == UNION {[1..k -> Alphabet] : k \in 0..n}
ServiceNames == Strings(MaxNameLen)
InstanceNames == Strings(MaxInstanceLen)
\* postgres_schema and redis_namespace as given: not given, empty, a name
Overrides == {None, Some(<<>>), Some(<<"x">>)}

\* `not value` for an Optional[str]
Falsy(value) == value = None \/ The(value) = <<>>

\* sep in s
Contains(s, sep) == \E i \in 1..Len(s) : s[i] = sep

\* s.split(sep, maxsplit)
RECURSIVE Split(_, _, _)
Split(s, sep, maxsplit) ==
    IF maxsplit = 0 \/ ~Contains(s, sep) THEN <<s>>
    ELSE LET i == CHOOSE i \in 1..Len(s) :
                    s[i] = sep /\ \A j \in 1..(i - 1) : s[j] # sep
         IN  <<SubSeq(s, 1, i - 1)>> \o Split(SubSeq(s, i + 1, Len(s)), sep, maxsplit - 1)

\* s.split(sep): no limit on the number of splits
SplitAll(s, sep) == Split(s, sep, Len(s))

\* s.replace(old, new), old and new single characters
Replace(s, old, new) == [i \in 1..Len(s) |-> IF s[i] = old THEN new ELSE s[i]]

UpperCase ==
    <<"A", "B", "C", "D", "E", "F", "G", "H", "I", "J", "K", "L", "M",
      "N", "O", "P", "Q", "R", "S", "T", "U", "V", "W", "X", "Y", "Z">>
LowerCase ==
    <<"a", "b", "c", "d", "e", "f", "g", "h", "i", "j", "k", "l", "m",
      "n", "o", "p", "q", "r", "s", "t", "u", "v", "w", "x", "y", "z">>
\* s.lower()
Lower(s) ==
    [i \in 1..Len(s) |->
        IF \E u \in 1..Len(UpperCase) : UpperCase[u] = s[i]
        THEN LowerCase[CHOOSE u \in 1..Len(UpperCase) : UpperCase[u] = s[i]]
        ELSE s[i]]

\* mutant: the singleton schema is the whole service name
derive_schema_name_WholeName(service_name, service_instance_name) ==
    IF service_name = service_instance_name
    THEN service_name
    ELSE Lower(Replace(service_instance_name, "-", "_"))

\* mutant: the multi-instance schema keeps the case of the instance name
derive_schema_name_KeepsCase(service_name, service_instance_name) ==
    IF service_name = service_instance_name
    THEN SplitAll(service_name, "-")[1]
    ELSE Replace(service_instance_name, "-", "_")

derive_schema_name(service_name, service_instance_name) ==
    IF service_name = service_instance_name
    THEN SplitAll(service_name, "-")[1]
    ELSE Lower(Replace(service_instance_name, "-", "_"))

\* mutant: the suffix is everything after the second hyphen
derive_redis_namespace_RestAsSuffix(service_name, service_instance_name) ==
    IF service_name = service_instance_name
    THEN SplitAll(service_name, "-")[1]
    ELSE LET parts == Split(service_instance_name, "-", 2)
         IN  IF Len(parts) >= 3
             THEN parts[1] \o <<"_">> \o parts[2] \o <<":">> \o parts[3]
             ELSE Replace(service_instance_name, "-", "_")

derive_redis_namespace(service_name, service_instance_name) ==
    IF service_name = service_instance_name
    THEN SplitAll(service_name, "-")[1]
    ELSE LET parts == Split(service_instance_name, "-", 2)
         IN  IF Len(parts) >= 3
             THEN LET suffix == IF Contains(parts[3], "-")
                                THEN LET pieces == Split(parts[3], "-", 1)
                                     IN  pieces[Len(pieces)]
                                ELSE parts[3]
                  IN  parts[1] \o <<"_">> \o parts[2] \o <<":">> \o suffix
             ELSE Replace(service_instance_name, "-", "_")

\* the fields of the configuration after model_post_init
model_post_init(fields) ==
    LET service_instance_name == IF fields.service_instance_name = <<>>
                                 THEN fields.service_name
                                 ELSE fields.service_instance_name
        postgres_schema == IF Falsy(fields.postgres_schema)
                           THEN Some(derive_schema_name(fields.service_name,
                                                        service_instance_name))
                           ELSE fields.postgres_schema
        redis_namespace == IF Falsy(fields.redis_namespace)
                           THEN Some(derive_redis_namespace(fields.service_name,
                                                            service_instance_name))
                           ELSE fields.redis_namespace
    IN  [service_name |-> fields.service_name,
         service_instance_name |-> service_instance_name,
         postgres_schema |-> postgres_schema,
         redis_namespace |-> redis_namespace]

\* the field values AdapterConfig(...) is given, as validation leaves them
ConfigInputs ==
    [service_name : ServiceNames, service_instance_name : InstanceNames,
     postgres_schema : Overrides, redis_namespace : Overrides]

\* AdapterConfig(**fields): the fields are set, then model_post_init runs
AdapterConfig ==
    /\ kind = "config"
    /\ ret.op = "init"
    /\ config' = Some(model_post_init(The(config)))
    /\ ret' = [op |-> "AdapterConfig", raised |-> "", fields |-> The(config)]
    /\ UNCHANGED <<kind, now, strategies, orders, trades, positions, services,
                   cache, lastWrite, lastExpire, trades_order,
                   adapter, tasks, objects>>

NextConfig == AdapterConfig

\* two instances of one service: the same service_name, an instance name
\* each, schema and namespace left to the derivation
PairServiceNames == {<<"a">>, <<"a", "-", "A">>}
PairInstanceNames == Strings(MaxPairLen)
PairInputs ==
    {pair \in [1..2 -> [service_name : PairServiceNames,
                        service_instance_name : PairInstanceNames,
                        postgres_schema : {None}, redis_namespace : {None}]] :
        pair[1].service_name = pair[2].service_name}

\* AdapterConfig(**fields) of the i-th instance, once: model_post_init
\* leaves a schema in place of the None given
AdapterConfigOf(i) ==
    /\ kind = "configs"
    /\ config[i].postgres_schema = None
    /\ config' = [config EXCEPT ![i] = model_post_init(@)]
    /\ ret' = [op |-> "AdapterConfig", raised |-> "", fields |-> config[i]]
    /\ UNCHANGED <<kind, now, strategies, orders, trades, positions, services,
                   cache, lastWrite, lastExpire, trades_order,
                   adapter, tasks, objects>>

NextConfigPair == \E i \in 1..2 : AdapterConfigOf(i)

----------------------------------------------------------------------------
(* TradingDataAdapter (factory.py): the facade over the six repositories *)

Kinds == {"strategies", "orders", "trades", "positions", "services", "cache"}

\* TradingDataAdapter.__init__ with its ConnectionStatus(); postgres_engine
\* and redis_client say whether the attribute is set (not None); repos[k] is
\* the instance held in the attribute of kind k, instances of a kind being
\* numbered in the order of their construction (constructed[k] so far)
NewAdapter ==
    [postgres_connected |-> FALSE, redis_connected |-> FALSE,
     last_postgres_check |-> None, last_redis_check |-> None,
     postgres_error |-> None, redis_error |-> None,
     postgres_engine |-> FALSE, redis_client |-> FALSE,
     repos |-> [k \in Kinds |-> None],
     constructed |-> [k \in Kinds |-> 0]]

\* what a backend does when connect() reaches it: creating the engine or the
\* client raises, the probe (SELECT 1, ping) raises, or both succeed
PostgresOutcomes == {"ok", "engine_fails", "probe_fails"}
RedisOutcomes == {"ok", "client_fails", "ping_fails"}
\* what a backend does when health_check() probes it
ProbeOutcomes == {"ok", "fails"}

\* the PostgreSQL block of connect()
ConnectPostgres(a, outcome, t) ==
    CASE outcome = "ok" ->
            [a EXCEPT !.postgres_engine = TRUE,
                      !.postgres_connected = TRUE,
                      !.last_postgres_check = Some(t)]
      [] outcome = "probe_fails" ->
            [a EXCEPT !.postgres_engine = TRUE,
                      !.postgres_error = Some("error")]
      [] outcome = "engine_fails" ->
            [a EXCEPT !.postgres_error = Some("error")]

\* the Redis block of connect()
ConnectRedis(a, outcome, t) ==
    CASE outcome = "ok" ->
            [a EXCEPT !.redis_client = TRUE,
                      !.redis_connected = TRUE,
                      !.last_redis_check = Some(t)]
      [] outcome = "ping_fails" ->
            [a EXCEPT !.redis_client = TRUE,
                      !.redis_error = Some("error")]
      [] outcome = "client_fails" ->
            [a EXCEPT !.redis_error = Some("error")]

AdapterFrame ==
    UNCHANGED <<kind, now, lastWrite, lastExpire, config, tasks, objects>>
StoresFrame ==
    UNCHANGED <<strategies, orders, trades, trades_order, positions, services, cache>>

\* an adapter and the kind of repository its caller asks it for: each
\* accessor reads and writes the attribute of its own kind only, and connect,
\* disconnect and health_check none of them
AdapterKinds == {<<"adapter", k>> : k \in Kinds}

\* connect(): when the imports fail the outer handler only logs
Adapter_connect(imports, postgres, redis) ==
    /\ kind \in AdapterKinds
    /\ IF imports
       THEN /\ adapter' = ConnectRedis(ConnectPostgres(adapter, postgres, now),
                                       redis, now)
            /\ ret' = [op |-> "connect", raised |-> "", imports |-> TRUE,
                       postgres |-> postgres, redis |-> redis]
       ELSE /\ adapter' = adapter
            /\ ret' = [op |-> "connect", raised |-> "", imports |-> FALSE]
    /\ StoresFrame
    /\ AdapterFrame

\* disconnect(): dispose() and aclose() return
Adapter_disconnect ==
    /\ kind \in AdapterKinds
    /\ adapter' = [adapter EXCEPT
            !.postgres_connected = IF adapter.postgres_engine THEN FALSE ELSE @,
            !.redis_connected = IF adapter.redis_client THEN FALSE ELSE @]
    /\ ret' = [op |-> "disconnect", raised |-> ""]
    /\ StoresFrame
    /\ AdapterFrame

\* health_check(): connection_status is neither read nor written
Adapter_health_check(postgres, redis) ==
    /\ kind \in AdapterKinds
    /\ LET pg_failed == adapter.postgres_engine /\ postgres = "fails"
           rd_failed == adapter.redis_client /\ redis = "fails"
       IN  ret' = [op |-> "health_check", raised |-> "",
                   status |-> IF pg_failed \/ rd_failed THEN "degraded" ELSE "healthy",
                   postgres |-> [connected |-> adapter.postgres_engine /\ ~pg_failed,
                                 error |-> IF pg_failed THEN Some("error") ELSE None],
                   redis |-> [connected |-> adapter.redis_client /\ ~rd_failed,
                              error |-> IF rd_failed THEN Some("error") ELSE None]]
    /\ UNCHANGED adapter
    /\ StoresFrame
    /\ AdapterFrame

\* mutant: every call of an accessor constructs a repository
NeedsConstruction_Always(a, k) == TRUE

\* `if self._x_repo is None`
NeedsConstruction(a, k) == a.repos[k] = None

\* self._x_repo = StubX()
Construct(a, k) ==
    [a EXCEPT !.constructed[k] = @ + 1, !.repos[k] = Some(a.constructed[k] + 1)]

\* StubX.__init__: the dict of a new instance is empty
StoreOf(construct, store) == IF construct THEN EmptyDict ELSE store

\* get_strategies_repository(), ..., get_cache_repository()
Adapter_get_repository(k) ==
    /\ kind = <<"adapter", k>>
    /\ LET construct == NeedsConstruction(adapter, k)
       IN  /\ construct => adapter.constructed[k] < MaxInstances
           /\ adapter' = IF construct THEN Construct(adapter, k) ELSE adapter
           /\ strategies' = StoreOf(construct /\ k = "strategies", strategies)
           /\ orders' = StoreOf(construct /\ k = "orders", orders)
           /\ trades' = StoreOf(construct /\ k = "trades", trades)
           /\ trades_order' = IF construct /\ k = "trades" THEN <<>> ELSE trades_order
           /\ positions' = StoreOf(construct /\ k = "positions", positions)
           /\ services' = StoreOf(construct /\ k = "services", services)
           /\ cache' = StoreOf(construct /\ k = "cache", cache)
    /\ ret' = [op |-> "get_repository", kind |-> k, raised |-> "",
               instance |-> The(adapter'.repos[k])]
    /\ AdapterFrame

\* the entity a caller of the facade stores in the repository of each kind
FacadeItems ==
    [strategies |-> CHOOSE x \in StrategyInputs : TRUE,
     orders |-> CHOOSE x \in OrderInputs : TRUE,
     trades |-> CHOOSE x \in TradeInputs : TRUE,
     positions |-> CHOOSE x \in PositionInputs : TRUE,
     services |-> CHOOSE x \in ServiceInputs : TRUE,
     cache |-> [key |-> CHOOSE x \in CacheKeys : TRUE,
                value |-> CHOOSE x \in CacheValues : TRUE]]
FacadeIds ==
    [strategies |-> FacadeItems.strategies.strategy_id,
     orders |-> FacadeItems.orders.order_id,
     trades |-> FacadeItems.trades.trade_id,
     positions |-> FacadeItems.positions.position_id,
     services |-> FacadeItems.services.service_id,
     cache |-> FacadeItems.cache.key]

\* the dict of the repository instance of kind k that the adapter holds
StoreOfKind(k) ==
    CASE k = "strategies" -> strategies
      [] k = "orders" -> orders
      [] k = "trades" -> trades
      [] k = "positions" -> positions
      [] k = "services" -> services
      [] k = "cache" -> cache

PutIf(write, store, k) ==
    IF write THEN DictSet(store, FacadeIds[k], FacadeItems[k]) ELSE store

\* create(), register() or set() on the instance the accessor returned
Repository_create(k) ==
    /\ kind = <<"adapter", k>>
    /\ IsSome(adapter.repos[k])
    /\ strategies' = PutIf(k = "strategies", strategies, k)
    /\ orders' = PutIf(k = "orders", orders, k)
    /\ trades' = PutIf(k = "trades", trades, k)
    /\ trades_order' = IF k = "trades"
                       THEN DictSetOrder(trades, trades_order, FacadeIds[k])
                       ELSE trades_order
    /\ positions' = PutIf(k = "positions", positions, k)
    /\ services' = PutIf(k = "services", services, k)
    /\ cache' = IF k = "cache"
                THEN SetEntry(cache, FacadeIds[k], FacadeItems[k].value, None, now)
                ELSE cache
    /\ ret' = [op |-> "create", kind |-> k, raised |-> ""]
    /\ UNCHANGED adapter
    /\ AdapterFrame

\* get_by_id(), get_service_by_id() or get() on the instance the accessor
\* returned
Repository_get_by_id(k) ==
    /\ kind = <<"adapter", k>>
    /\ IsSome(adapter.repos[k])
    /\ ret' = [op |-> "get_by_id", kind |-> k, raised |-> "",
               val |-> IF k = "cache"
                       THEN GetValue(cache, FacadeIds[k], now)
                       ELSE DictLookup(StoreOfKind(k), FacadeIds[k])]
    /\ UNCHANGED adapter
    /\ StoresFrame
    /\ AdapterFrame

NextAdapter ==
    \/ \E imports \in BOOLEAN, postgres \in PostgresOutcomes, redis \in RedisOutcomes :
            Adapter_connect(imports, postgres, redis)
    \/ Adapter_disconnect
    \/ \E postgres \in ProbeOutcomes, redis \in ProbeOutcomes :
            Adapter_health_check(postgres, redis)
    \/ \E k \in Kinds : Adapter_get_repository(k)
    \/ \E k \in Kinds : Repository_create(k)
    \/ \E k \in Kinds : Repository_get_by_id(k)

----------------------------------------------------------------------------
(* StubCacheRepository.increment called by two asyncio tasks of one event  *)
(* loop: a task runs until it suspends or finishes, and only then does the *)
(* loop run another                                                        *)

TaskIds == {"t1", "t2"}

\* mutant: awaiting get() lets the event loop run another task
AwaitSuspends_Yields == TRUE

\* whether `await self.get(key)` hands control back to the event loop:
\* get() contains no await, and awaiting a coroutine that never suspends
\* runs it to completion within the caller
AwaitSuspends == FALSE

\* the tasks as created: each is to call increment(key, amount)
NewTasks(initial, calls) ==
    [running |-> None,
     initial |-> initial,
     of |-> [t \in TaskIds |->
                [pc |-> "ready", key |-> calls[t].key, amount |-> calls[t].amount,
                 current |-> None, result |-> None]]]

TasksFrame ==
    UNCHANGED <<kind, now, strategies, orders, trades, positions, services, ret,
                lastWrite, lastExpire, trades_order, config, adapter,
                objects>>

\* the event loop, idle, runs a task that is ready to start or to resume
Loop_run(t) ==
    /\ kind = "tasks"
    /\ tasks.running = None
    /\ tasks.of[t].pc \in {"ready", "got"}
    /\ tasks' = [tasks EXCEPT !.running = Some(t)]
    /\ UNCHANGED cache
    /\ TasksFrame

\* current = await self.get(key)
Incr_get(t) ==
    /\ kind = "tasks"
    /\ tasks.running = Some(t)
    /\ tasks.of[t].pc = "ready"
    /\ cache' = GetEvict(cache, tasks.of[t].key, now)
    /\ tasks' = [tasks EXCEPT
            !.of[t].pc = "got",
            !.of[t].current = Some(GetValue(cache, tasks.of[t].key, now)),
            !.running = IF AwaitSuspends THEN None ELSE @]
    /\ TasksFrame

\* new_value = int(current or 0) + amount; await self.set(key, str(new_value));
\* return new_value
Incr_set(t) ==
    /\ kind = "tasks"
    /\ tasks.running = Some(t)
    /\ tasks.of[t].pc = "got"
    /\ LET current == The(tasks.of[t].current)
           text == IF IsSome(current) /\ The(current) # <<>> THEN The(current) ELSE <<"0">>
       IN  IF IsIntLiteral(text)
           THEN LET new_value == ParseInt(text) + tasks.of[t].amount
                IN  /\ cache' = SetEntry(cache, tasks.of[t].key, Str(new_value), None, now)
                    /\ tasks' = [tasks EXCEPT !.of[t].pc = "done",
                                              !.of[t].result = Some(new_value),
                                              !.running = None]
           ELSE /\ cache' = cache
                /\ tasks' = [tasks EXCEPT !.of[t].pc = "raised",
                                          !.running = None]
    /\ TasksFrame

NextTasks == \E t \in TaskIds : Loop_run(t) \/ Incr_get(t) \/ Incr_set(t)

----------------------------------------------------------------------------
(* Calls that pass the parameter lists the repository contracts declare    *)
(* (interfaces/*.py); args are the positional arguments after self, and a  *)
(* call that passes more of them than the method defines raises TypeError  *)
(* before the body runs                                                    *)

\* len(args) fits a method with `required` parameters and `optional` more
Binds(args, required, optional) ==
    required <= Len(args) /\ Len(args) <= required + optional

\* a Strategy with the fields update_pnl and increment_trade_count are about
TradeCounts == {0, 2}
ContractStrategies ==
    [strategy_id : StrategyIds, status : {"active"}, total_pnl : PnlInputs,
     daily_pnl : {0}, total_trades : TradeCounts]
ContractTrades ==
    {t \in TradeInputs : t.executed_at = 2 /\ t.realized_pnl = None}

\* the stub's update_pnl(strategy_id, pnl) and the contract's
\* update_pnl(strategy_id, total_pnl, daily_pnl)
UpdatePnlArgs ==
    {<<id, pnl>> : id \in StrategyIds, pnl \in PnlInputs}
        \cup {<<id, pnl, 1>> : id \in StrategyIds, pnl \in PnlInputs}

\* StubStrategiesRepository.update_pnl(*args): def update_pnl(self, strategy_id, pnl)
Strategies_update_pnl_call(args) ==
    /\ kind = "strategies"
    /\ IF Binds(args, 2, 0)
       THEN /\ strategies' = IF DictHas(strategies, args[1])
                             THEN [strategies EXCEPT ![args[1]].total_pnl = args[2]]
                             ELSE strategies
            /\ ret' = Called("update_pnl", args[1], strategies) @@ [args |-> args]
       ELSE /\ strategies' = strategies
            /\ ret' = Raised("update_pnl", args[1], strategies, "TypeError")
                        @@ [args |-> args]
    /\ StrategiesFrame

\* increment_trade_count(strategy_id): the body only logs
Strategies_increment_trade_count(strategy_id) ==
    /\ kind = "strategies"
    /\ strategies' = strategies
    /\ ret' = Called("increment_trade_count", strategy_id, strategies)
    /\ StrategiesFrame

\* the stub's update_status(order_id, status) and the contract's
\* update_status(order_id, status, filled_quantity)
UpdateStatusArgs ==
    {<<id, status>> : id \in OrderIds, status \in OrderStatuses}
        \cup {<<id, status, 1>> : id \in OrderIds, status \in OrderStatuses}

\* StubOrdersRepository.update_status(*args): def update_status(self, order_id, status)
Orders_update_status_call(args) ==
    /\ kind = "orders"
    /\ IF Binds(args, 2, 0)
       THEN /\ orders' = IF DictHas(orders, args[1])
                         THEN [orders EXCEPT ![args[1]].status = args[2]]
                         ELSE orders
            /\ ret' = Called("update_status", args[1], orders) @@ [args |-> args]
       ELSE /\ orders' = orders
            /\ ret' = Raised("update_status", args[1], orders, "TypeError")
                        @@ [args |-> args]
    /\ OrdersFrame

\* the stub's get_by_strategy(strategy_id) and the contract's
\* get_by_strategy(strategy_id, from_date, to_date)
GetByStrategyArgs ==
    {<<id>> : id \in StrategyIds}
        \cup {<<id, from_date, to_date>> :
                id \in StrategyIds, from_date \in {None, Some(1)}, to_date \in {None, Some(3)}}

\* StubTradesRepository.get_by_strategy(*args): def get_by_strategy(self, strategy_id)
Trades_get_by_strategy_call(args) ==
    /\ kind = "trades"
    /\ ret' = IF Binds(args, 1, 0)
              THEN [op |-> "get_by_strategy", args |-> args, raised |-> "",
                    list |-> TradesByStrategy(args[1])]
              ELSE [op |-> "get_by_strategy", args |-> args, raised |-> "TypeError"]
    /\ UNCHANGED <<trades, trades_order>>
    /\ TradesFrame

NextContract ==
    \/ \E strategy \in ContractStrategies : Strategies_create(strategy)
    \/ \E args \in UpdatePnlArgs : Strategies_update_pnl_call(args)
    \/ \E strategy_id \in StrategyIds : Strategies_increment_trade_count(strategy_id)
    \/ \E order \in OrderInputs : Orders_create(order)
    \/ \E args \in UpdateStatusArgs : Orders_update_status_call(args)
    \/ \E trade \in ContractTrades : Trades_create(trade)
    \/ \E args \in GetByStrategyArgs : Trades_get_by_strategy_call(args)

----------------------------------------------------------------------------
(* Orders with their ordered quantity, and the fills reported for them *)

\* an Order as created: quantity ordered, nothing or part of it filled
QuantityOrders ==
    [order_id : OrderIds, strategy_id : {"s1"}, status : {"pending", "filled"},
     quantity : {1, 2}, filled_quantity : {0, 1}, average_fill_price : {None},
     cancelled_at : {None}]
\* filled_quantity as update_fill is given it
FilledQuantities == {1, 3}

NextFills ==
    \/ \E order \in QuantityOrders : Orders_create(order)
    \/ \E order_id \in OrderIds, filled_quantity \in FilledQuantities :
            Orders_update_fill(order_id, filled_quantity, 1)
    \/ \E order_id \in OrderIds, status \in {"partially_filled", "filled"} :
            Orders_update_status(order_id, status)
    \/ \E order_id \in OrderIds : Orders_cancel(order_id)

----------------------------------------------------------------------------
(* StubCacheRepository.set_json / get_json: json.dumps and json.loads over *)
(* JSON values, a value being a record tagged with its type; Python None   *)
(* is the JSON null                                                        *)

JNull == [t |-> "null"]
JBool(b) == [t |-> "bool", b |-> b]
JInt(n) == [t |-> "int", n |-> n]
JStr(str) == [t |-> "str", s |-> str]
JList(items) == [t |-> "list", items |-> items]
\* a dict as the sequence of its members, each a key and a value
JDict(members) == [t |-> "dict", members |-> members]

\* the objects a caller hands to set_json
JsonValues ==
    {JNull, JBool(FALSE), JInt(0), JInt(0 - 1), JStr(<<>>), JStr(<<"a">>),
     JList(<<>>), JList(<<JInt(1), JStr(<<>>), JList(<<>>)>>),
     JDict(<<>>), JDict(<<[k |-> <<"a">>, v |-> JList(<<JBool(TRUE)>>)]>>)}

\* json.dumps(obj), with the default separators ", " and ": "
RECURSIVE Dumps(_)
RECURSIVE DumpItems(_)
RECURSIVE DumpMembers(_)
DumpItems(items) ==
    IF Len(items) = 1 THEN Dumps(items[1])
    ELSE Dumps(items[1]) \o <<",", " ">> \o DumpItems(Tail(items))
DumpMembers(members) ==
    LET first == <<"\"">> \o members[1].k \o <<"\"", ":", " ">> \o Dumps(members[1].v)
    IN  IF Len(members) = 1 THEN first
        ELSE first \o <<",", " ">> \o DumpMembers(Tail(members))
Dumps(obj) ==
    CASE obj.t = "null" -> <<"n", "u", "l", "l">>
      [] obj.t = "bool" -> IF obj.b THEN <<"t", "r", "u", "e">>
                                    ELSE <<"f", "a", "l", "s", "e">>
      [] obj.t = "int" -> Str(obj.n)
      [] obj.t = "str" -> <<"\"">> \o obj.s \o <<"\"">>
      [] obj.t = "list" -> IF obj.items = <<>> THEN <<"[", "]">>
                           ELSE <<"[">> \o DumpItems(obj.items) \o <<"]">>
      [] obj.t = "dict" -> IF obj.members = <<>> THEN <<"{", "}">>
                           ELSE <<"{">> \o DumpMembers(obj.members) \o <<"}">>

\* json.loads(s): the value that starts at s[i] and the index after it
RECURSIVE ParseValue(_, _)
RECURSIVE ParseItems(_, _)
RECURSIVE ParseMembers(_, _)
\* the index of the quote that closes the string opened at s[i]
ClosingQuote(s, i) ==
    CHOOSE j \in (i + 1)..Len(s) :
        s[j] = "\"" /\ \A x \in (i + 1)..(j - 1) : s[x] # "\""
\* the index of the last character of the number that starts at s[i]
NumberEnd(s, i) ==
    CHOOSE j \in i..Len(s) :
        /\ \A x \in (i + 1)..j : IsDigit(s[x])
        /\ j = Len(s) \/ ~IsDigit(s[j + 1])
ParseItems(s, i) ==
    LET item == ParseValue(s, i)
    IN  IF s[item.next] = ","
        THEN LET rest == ParseItems(s, item.next + 2)
             IN  [val |-> <<item.val>> \o rest.val, next |-> rest.next]
        ELSE [val |-> <<item.val>>, next |-> item.next + 1]
ParseMembers(s, i) ==
    LET key == ParseValue(s, i)
        value == ParseValue(s, key.next + 2)
        member == [k |-> key.val.s, v |-> value.val]
    IN  IF s[value.next] = ","
        THEN LET rest == ParseMembers(s, value.next + 2)
             IN  [val |-> <<member>> \o rest.val, next |-> rest.next]
        ELSE [val |-> <<member>>, next |-> value.next + 1]
ParseValue(s, i) ==
    CASE s[i] = "n" -> [val |-> JNull, next |-> i + 4]
      [] s[i] = "t" -> [val |-> JBool(TRUE), next |-> i + 4]
      [] s[i] = "f" -> [val |-> JBool(FALSE), next |-> i + 5]
      [] s[i] = "\"" ->
            [val |-> JStr(SubSeq(s, i + 1, ClosingQuote(s, i) - 1)),
             next |-> ClosingQuote(s, i) + 1]
      [] s[i] = "[" ->
            IF s[i + 1] = "]" THEN [val |-> JList(<<>>), next |-> i + 2]
            ELSE LET items == ParseItems(s, i + 1)
                 IN  [val |-> JList(items.val), next |-> items.next]
      [] s[i] = "{" ->
            IF s[i + 1] = "}" THEN [val |-> JDict(<<>>), next |-> i + 2]
            ELSE LET members == ParseMembers(s, i + 1)
                 IN  [val |-> JDict(members.val), next |-> members.next]
      [] OTHER ->
            [val |-> JInt(ParseInt(SubSeq(s, i, NumberEnd(s, i)))),
             next |-> NumberEnd(s, i) + 1]
Loads(s) == ParseValue(s, 1).val

\* bool(obj) is false: None, False, 0, "", [] and {}
FalsyObject(obj) ==
    \/ obj.t = "null"
    \/ obj.t = "bool" /\ ~obj.b
    \/ obj.t = "int" /\ obj.n = 0
    \/ obj.t = "str" /\ obj.s = <<>>
    \/ obj.t = "list" /\ obj.items = <<>>
    \/ obj.t = "dict" /\ obj.members = <<>>

\* mutant: the truth test is made on the decoded object
GetJson_TestsObject(value) ==
    IF IsSome(value) /\ ~FalsyObject(Loads(The(value)))
    THEN Loads(The(value))
    ELSE JNull

\* get_json(key), value being what get(key) returned: `if value:` tests
\* the text, which is false for None and for the empty string
GetJson(value) ==
    IF IsSome(value) /\ The(value) # <<>> THEN Loads(The(value)) ELSE JNull

\* set_json(key, value, ttl) is set(key, json.dumps(value), ttl); the history
\* keeps the object next to its text
Cache_set_json(key, obj, ttl) ==
    /\ kind = "cache"
    /\ cache' = SetEntry(cache, key, Dumps(obj), ttl, now)
    /\ ret' = [op |-> "set_json", key |-> key]
    /\ lastWrite' = [lastWrite EXCEPT
                        ![key] = Wrote("set", Dumps(obj), ttl) @@ [obj |-> obj]]
    /\ lastExpire' = [lastExpire EXCEPT ![key] = None]
    /\ CacheFrame

Cache_get_json(key) ==
    /\ kind = "cache"
    /\ cache' = GetEvict(cache, key, now)
    /\ ret' = [op |-> "get_json", key |-> key,
               val |-> GetJson(GetValue(cache, key, now))]
    /\ UNCHANGED <<lastWrite, lastExpire>>
    /\ CacheFrame

NextJson ==
    \/ \E key \in CacheKeys, obj \in JsonValues, ttl \in {None, Some(1)} :
            Cache_set_json(key, obj, ttl)
    \/ \E key \in CacheKeys : Cache_get_json(key)
    \/ \E key \in CacheKeys : Cache_delete(key)

----------------------------------------------------------------------------
(* StubServiceDiscoveryRepository: the lookups by name and the listings *)

\* a status that differs from "healthy" only in its case
OtherCaseStatuses == {"HEALTHY"}

\* mutant: the status compared without regard to case
HealthyServices_IgnoreCase(d) ==
    {s \in DictValues(d) : s.status \in {"healthy"} \cup OtherCaseStatuses}

\* [s for s in self._services.values() if s.status == "healthy"]
HealthyServices(d) == {s \in DictValues(d) : s.status = "healthy"}

\* get_service(service_name): the first service of that name in the dict's
\* order, which is the order of registration; the services of that name can
\* have been registered in any order, so each of them can be the first
Services_get_service(service_name) ==
    LET named == {s \in DictValues(services) : s.service_name = service_name}
    IN  /\ kind = "services"
        /\ \E val \in (IF named = {} THEN {None} ELSE {Some(s) : s \in named}) :
                ret' = [op |-> "get_service", service_name |-> service_name,
                        raised |-> "", val |-> val]
        /\ UNCHANGED services
        /\ ServicesFrame

Services_list_services ==
    /\ kind = "services"
    /\ ret' = [op |-> "list_services", raised |-> "",
               list |-> DictValues(services)]
    /\ UNCHANGED services
    /\ ServicesFrame

Services_list_healthy_services ==
    /\ kind = "services"
    /\ ret' = [op |-> "list_healthy_services", raised |-> "",
               list |-> HealthyServices(services)]
    /\ UNCHANGED services
    /\ ServicesFrame

LookupNames == {"svc", "other"}

NextLifecycle ==
    \/ NextServices
    \/ \E service_id \in ServiceIds, status \in OtherCaseStatuses :
            Services_update_status(service_id, status)
    \/ \E service_name \in LookupNames : Services_get_service(service_name)
    \/ Services_list_services
    \/ Services_list_healthy_services

----------------------------------------------------------------------------
(* Two StubStrategiesRepository instances and the Strategy objects they store *)

\* the repository instances, each with a _strategies dict of its own
Instances == {"a", "b"}
\* the Strategy objects the caller has built: o1 and o2 carry the same
\* strategy_id, o3 another one
ObjectRefs == {"o1", "o2", "o3"}
NewObjects ==
    [heap |-> [o \in ObjectRefs |->
                [strategy_id |-> IF o = "o3" THEN "s2" ELSE "s1",
                 status |-> "active"]],
     stores |-> [r \in Instances |-> EmptyDict]]

ObjectsFrame ==
    UNCHANGED <<kind, now, strategies, orders, trades, positions, services,
                cache, lastWrite, lastExpire, trades_order, config, adapter,
                tasks>>

\* self._strategies.get(strategy_id): the object stored, as it is now
StoredStrategy(objs, r, strategy_id) ==
    IF DictHas(objs.stores[r], strategy_id)
    THEN Some(objs.heap[objs.stores[r][strategy_id]])
    ELSE None

\* create(strategy): the dict keeps the caller's object, not a copy of it
Instance_create(r, o) ==
    /\ kind = "instances"
    /\ objects' = [objects EXCEPT
                    !.stores[r] = DictSet(@, objects.heap[o].strategy_id, o)]
    /\ ret' = [op |-> "create", repo |-> r, id |-> objects.heap[o].strategy_id,
               raised |-> ""]
    /\ ObjectsFrame

Instance_get_by_id(r, strategy_id) ==
    /\ kind = "instances"
    /\ ret' = [op |-> "get_by_id", repo |-> r, id |-> strategy_id, raised |-> "",
               val |-> StoredStrategy(objects, r, strategy_id)]
    /\ UNCHANGED objects
    /\ ObjectsFrame

\* update_status(strategy_id, status): assigns the field of the stored object
Instance_update_status(r, strategy_id, status) ==
    /\ kind = "instances"
    /\ objects' = IF DictHas(objects.stores[r], strategy_id)
                  THEN [objects EXCEPT
                          !.heap[objects.stores[r][strategy_id]].status = status]
                  ELSE objects
    /\ ret' = [op |-> "update_status", repo |-> r, id |-> strategy_id,
               raised |-> ""]
    /\ ObjectsFrame

Instance_delete(r, strategy_id) ==
    /\ kind = "instances"
    /\ objects' = [objects EXCEPT !.stores[r] = DictPop(@, strategy_id)]
    /\ ret' = [op |-> "delete", repo |-> r, id |-> strategy_id, raised |-> ""]
    /\ ObjectsFrame

NextInstances ==
    \/ \E r \in Instances, o \in ObjectRefs : Instance_create(r, o)
    \/ \E r \in Instances, strategy_id \in StrategyIds :
            Instance_get_by_id(r, strategy_id)
    \/ \E r \in Instances, strategy_id \in StrategyIds,
          status \in StrategyStatuses :
            Instance_update_status(r, strategy_id, status)
    \/ \E r \in Instances, strategy_id \in StrategyIds :
            Instance_delete(r, strategy_id)

----------------------------------------------------------------------------
(* Specifications *)

Init ==
    /\ kind \in Kinds
    /\ now = 0
    /\ strategies = EmptyDict
    /\ orders = EmptyDict
    /\ trades = EmptyDict
    /\ positions = EmptyDict
    /\ services = EmptyDict
    /\ cache = EmptyDict
    /\ ret = [op |-> "init"]
    /\ lastWrite = [key \in CacheKeys |-> NoWrite]
    /\ lastExpire = [key \in CacheKeys |-> None]
    /\ trades_order = <<>>
    /\ adapter = NewAdapter
    /\ tasks = <<>>
    /\ objects = <<>>
    /\ config = None

NextCache ==
    \/ \E key \in CacheKeys : Cache_get(key)
    \/ \E key \in CacheKeys, value \in CacheValues, ttl \in SetTtls :
            Cache_set(key, value, ttl)
    \/ \E key \in CacheKeys : Cache_delete(key)
    \/ \E key \in CacheKeys : Cache_exists(key)
    \/ \E pat \in Patterns : Cache_delete_pattern(pat)
    \/ \E pat \in Patterns : Cache_keys(pat)
    \/ \E key \in CacheKeys : Cache_ttl(key)
    \/ \E key \in CacheKeys, ttl \in ExpireTtls : Cache_expire(key, ttl)
    \/ \E key \in CacheKeys, amount \in Amounts : Cache_increment(key, amount)
    \/ \E key \in CacheKeys, amount \in Amounts : Cache_decrement(key, amount)

\* the stub repositories of one kind, alone
InitCache == Init /\ kind = "cache"
SpecCache == InitCache /\ [][NextCache \/ Tick]_vars

InitOrders == Init /\ kind = "orders"
SpecOrders == InitOrders /\ [][NextOrders]_vars

\* one AdapterConfig, its fields set and model_post_init yet to run
InitConfig ==
    /\ kind = "config"
    /\ now = 0
    /\ strategies = EmptyDict
    /\ orders = EmptyDict
    /\ trades = EmptyDict
    /\ positions = EmptyDict
    /\ services = EmptyDict
    /\ cache = EmptyDict
    /\ ret = [op |-> "init"]
    /\ lastWrite = [key \in CacheKeys |-> NoWrite]
    /\ lastExpire = [key \in CacheKeys |-> None]
    /\ trades_order = <<>>
    /\ adapter = NewAdapter
    /\ tasks = <<>>
    /\ objects = <<>>
    /\ \E fields \in ConfigInputs : config = Some(fields)
SpecConfig == InitConfig /\ [][NextConfig]_vars

\* two AdapterConfig of one service, both yet to be constructed
InitConfigPair ==
    /\ kind = "configs"
    /\ now = 0
    /\ strategies = EmptyDict
    /\ orders = EmptyDict
    /\ trades = EmptyDict
    /\ positions = EmptyDict
    /\ services = EmptyDict
    /\ cache = EmptyDict
    /\ ret = [op |-> "init"]
    /\ lastWrite = [key \in CacheKeys |-> NoWrite]
    /\ lastExpire = [key \in CacheKeys |-> None]
    /\ trades_order = <<>>
    /\ adapter = NewAdapter
    /\ tasks = <<>>
    /\ objects = <<>>
    /\ config \in PairInputs
SpecConfigPair == InitConfigPair /\ [][NextConfigPair]_vars

\* one TradingDataAdapter, as constructed, and the kind of repository its
\* caller uses
InitAdapter ==
    /\ kind \in AdapterKinds
    /\ now = 0
    /\ strategies = EmptyDict
    /\ orders = EmptyDict
    /\ trades = EmptyDict
    /\ positions = EmptyDict
    /\ services = EmptyDict
    /\ cache = EmptyDict
    /\ ret = [op |-> "init"]
    /\ lastWrite = [key \in CacheKeys |-> NoWrite]
    /\ lastExpire = [key \in CacheKeys |-> None]
    /\ trades_order = <<>>
    /\ adapter = NewAdapter
    /\ tasks = <<>>
    /\ objects = <<>>
    /\ config = None
SpecAdapter == InitAdapter /\ [][NextAdapter]_vars

\* one StubCacheRepository holding counters, and two tasks about to call
\* increment on it
InitTasks ==
    /\ kind = "tasks"
    /\ now = 0
    /\ strategies = EmptyDict
    /\ orders = EmptyDict
    /\ trades = EmptyDict
    /\ positions = EmptyDict
    /\ services = EmptyDict
    /\ \E keys \in SUBSET CacheKeys :
            cache \in [keys -> [value : CacheValues, expires_at : {None}]]
    /\ ret = [op |-> "init"]
    /\ lastWrite = [key \in CacheKeys |-> NoWrite]
    /\ lastExpire = [key \in CacheKeys |-> None]
    /\ trades_order = <<>>
    /\ adapter = NewAdapter
    /\ config = None
    /\ \E calls \in [TaskIds -> [key : CacheKeys, amount : Amounts]] :
            tasks = NewTasks(cache, calls)
    /\ objects = <<>>
SpecTasks == InitTasks /\ [][NextTasks]_vars

\* the repositories whose stub and contract differ in a parameter list
InitContract == Init /\ kind \in {"strategies", "orders", "trades"}
SpecContract == InitContract /\ [][NextContract]_vars

\* the orders repository, its orders carrying their quantity
InitFills == Init /\ kind = "orders"
SpecFills == InitFills /\ [][NextFills]_vars

\* the cache repository holding JSON documents
SpecJson == InitCache /\ [][NextJson \/ Tick]_vars

InitServices == Init /\ kind = "services"
SpecServices == InitServices /\ [][NextServices \/ Tick]_vars

\* two repositories of one kind, empty, and the objects not yet stored
InitInstances ==
    /\ kind = "instances"
    /\ now = 0
    /\ strategies = EmptyDict
    /\ orders = EmptyDict
    /\ trades = EmptyDict
    /\ positions = EmptyDict
    /\ services = EmptyDict
    /\ cache = EmptyDict
    /\ ret = [op |-> "init"]
    /\ lastWrite = [key \in CacheKeys |-> NoWrite]
    /\ lastExpire = [key \in CacheKeys |-> None]
    /\ trades_order = <<>>
    /\ adapter = NewAdapter
    /\ tasks = <<>>
    /\ config = None
    /\ objects = NewObjects
SpecInstances == InitInstances /\ [][NextInstances]_vars

\* the service registry with its lookups and listings
SpecLifecycle == InitServices /\ [][NextLifecycle \/ Tick]_vars

InitTrades == Init /\ kind = "trades"
SpecTrades == InitTrades /\ [][NextTrades]_vars

InitPositions == Init /\ kind = "positions"
SpecPositions == InitPositions /\ [][NextPositions]_vars

\* the four entity repositories
InitEntities == Init /\ kind \in {"strategies", "orders", "trades", "positions"}
NextEntities ==
    \/ NextStrategies
    \/ NextOrders
    \/ NextTrades
    \/ NextPositions
SpecEntities == InitEntities /\ [][NextEntities]_vars

\* every stub repository
Next ==
    \/ NextStrategies
    \/ NextOrders
    \/ NextTrades
    \/ NextPositions
    \/ NextServices
    \/ NextCache
    \/ Tick

Spec == Init /\ [][Next]_vars

----------------------------------------------------------------------------
(* What the history says about a cache key, without looking at the dict *)

\* the expiry instant last given to key: by expire() if one took effect,
\* else by the set() that wrote it
GivenDeadline(key) ==
    IF IsSome(lastExpire[key]) THEN Some(The(lastExpire[key]).deadline)
    ELSE lastWrite[key].deadline

\* the ttl, in seconds, that came with it
GivenTtl(key) ==
    IF IsSome(lastExpire[key]) THEN The(lastExpire[key]).ttl
    ELSE The(lastWrite[key].ttl)

\* the value a caller who remembers its own calls expects key to hold now
HeldValue(key) ==
    IF /\ lastWrite[key].op \in {"set", "increment"}
       /\ (GivenDeadline(key) = None \/ now < The(GivenDeadline(key)))
    THEN Some(lastWrite[key].value)
    ELSE None

IntOfHeld(o) == IF o = None \/ The(o) = <<>> THEN 0 ELSE ParseInt(The(o))

\* key was last written by set() with a positive ttl and not touched since
SetWithTtl(key) ==
    /\ lastWrite[key].op = "set"
    /\ IsSome(lastWrite[key].deadline)
    /\ lastExpire[key] = None

\* key was last written by set() with ttl absent or 0
SetWithoutTtl(key) ==
    /\ lastWrite[key].op = "set"
    /\ lastWrite[key].ttl \in {None, Some(0)}

----------------------------------------------------------------------------
(* Statements about the cache (SpecCache) *)

\* C1: a key set with a positive ttl at t0 and not written, expired or
\* deleted since reads back its value at every instant before t0 + ttl and
\* reads absent from t0 + ttl on; exists(k) is true exactly when get(k)
\* would return a value.
C1_CacheExpiry ==
    /\ (ret.op = "get" /\ SetWithTtl(ret.key)) =>
            ret.val = (IF now < The(lastWrite[ret.key].deadline)
                       THEN Some(lastWrite[ret.key].value)
                       ELSE None)
    /\ (ret.op = "exists" /\ SetWithTtl(ret.key)) =>
            ret.bool = (now < The(lastWrite[ret.key].deadline))
    /\ ret.op = "exists" => ret.bool = IsSome(GetValue(cache, ret.key, now))

\* a get at the very instant the ttl runs out, answered absent
C1_Witness ==
    /\ ret.op = "get"
    /\ SetWithTtl(ret.key)
    /\ now = The(lastWrite[ret.key].deadline)
    /\ ret.val = None

\* C2 as stated: ttl(k) is -2 for an absent or expired key, -1 for a key
\* without expiry, and otherwise strictly positive and at most the ttl given;
\* it is never 0.
C2_TtlNeverZero ==
    ret.op = "ttl" =>
        /\ ret.int # 0
        /\ IF lastWrite[ret.key].op \in {"none", "delete"} THEN ret.int = 0 - 2
           ELSE IF GivenDeadline(ret.key) = None THEN ret.int = 0 - 1
           ELSE IF now >= The(GivenDeadline(ret.key)) THEN ret.int = 0 - 2
           ELSE ret.int > 0 /\ ret.int <= GivenTtl(ret.key)

\* C2 as amended: ttl(k) is -2 for an absent or expired key, -1 for a key
\* without expiry, and otherwise the remaining time floored to whole
\* seconds: at least 0, at most the ttl given, and 0 exactly while less than
\* one second remains.
C2_TtlFloor ==
    ret.op = "ttl" =>
        IF lastWrite[ret.key].op \in {"none", "delete"} THEN ret.int = 0 - 2
        ELSE IF GivenDeadline(ret.key) = None THEN ret.int = 0 - 1
        ELSE IF now >= The(GivenDeadline(ret.key)) THEN ret.int = 0 - 2
        ELSE LET remaining == The(GivenDeadline(ret.key)) - now
             IN  /\ ret.int * TicksPerSecond <= remaining
                 /\ remaining < (ret.int + 1) * TicksPerSecond
                 /\ ret.int >= 0
                 /\ ret.int <= GivenTtl(ret.key)
                 /\ (ret.int = 0) = (remaining < TicksPerSecond)

\* ttl() answers 0 for a key that get() still returns
C2_Witness ==
    /\ ret.op = "ttl"
    /\ ret.int = 0
    /\ IsSome(GetValue(cache, ret.key, now))
    /\ now < The(GivenDeadline(ret.key))

\* C3 as stated: after set(k, v, ttl) with ttl absent or 0, get(k) returns v
\* and ttl(k) returns -1 until k is set again, incremented or deleted.
C3_NoTtlUntilOverwritten ==
    /\ (ret.op = "get" /\ SetWithoutTtl(ret.key)) =>
            ret.val = Some(lastWrite[ret.key].value)
    /\ (ret.op = "ttl" /\ SetWithoutTtl(ret.key)) => ret.int = 0 - 1

\* C3 as amended: set(k, v, ttl) with ttl absent or 0 stores (v, no expiry),
\* whatever expiry k had; get(k) returns v and ttl(k) returns -1 until k is
\* set again, incremented, deleted or given an expiry by expire().
C3_NoTtlNoExpiry ==
    /\ (ret.op = "set" /\ SetWithoutTtl(ret.key)) =>
            /\ DictHas(cache, ret.key)
            /\ cache[ret.key] = [value |-> lastWrite[ret.key].value,
                                 expires_at |-> None]
    /\ (ret.op = "get" /\ SetWithoutTtl(ret.key) /\ lastExpire[ret.key] = None) =>
            ret.val = Some(lastWrite[ret.key].value)
    /\ (ret.op = "ttl" /\ SetWithoutTtl(ret.key) /\ lastExpire[ret.key] = None) =>
            ret.int = 0 - 1

\* a key set with ttl = 0 is read back when the clock has run to its end
C3_Witness ==
    /\ ret.op = "get"
    /\ lastWrite[ret.key].op = "set"
    /\ lastWrite[ret.key].ttl = Some(0)
    /\ lastExpire[ret.key] = None
    /\ now = MaxTime
    /\ IsSome(ret.val)

\* C4: increment(k, a) returns and stores current + a, where current is the
\* integer k holds, 0 for a missing or expired key; decrement(k, a) does the
\* same with -a; a decrement(k, a) right after increment(k, a) returns the
\* integer k held before the increment.
C4_IncrementDecrement ==
    [][ /\ (ret'.op \in {"increment", "decrement"}
            /\ (HeldValue(ret'.key) = None \/ The(HeldValue(ret'.key)) = <<>>
                \/ IsIntLiteral(The(HeldValue(ret'.key))))) =>
                LET current == IntOfHeld(HeldValue(ret'.key))
                    delta == IF ret'.op = "increment" THEN ret'.amount
                             ELSE 0 - ret'.amount
                IN  /\ ret'.raised = ""
                    /\ ret'.int = current + delta
                    /\ DictHas(cache', ret'.key)
                    /\ IsIntLiteral(cache'[ret'.key].value)
                    /\ ParseInt(cache'[ret'.key].value) = current + delta
        /\ (ret.op = "increment" /\ ret.raised = "" /\ ret'.op = "decrement"
            /\ ret'.key = ret.key /\ ret'.amount = ret.amount) =>
                /\ ret'.raised = ""
                /\ ret'.int = IntOfHeld(ret.before.read)
      ]_vars

\* a decrement undoing the increment before it, on a key that held an integer
C4_Witness ==
    /\ ret.op = "decrement"
    /\ ret.raised = ""
    /\ IsSome(ret.before.read)
    /\ IsIntLiteral(The(ret.before.read))
    /\ ret.amount = 2
    /\ ret.int = ParseInt(The(ret.before.read)) - 2

\* C5: increment and decrement write back without ttl: right after the call
\* the entry has no expiry, whatever expiry it had; ttl(k) is -1 and get(k)
\* returns the new value until k is set again, given an expiry by expire()
\* or deleted.
C5_IncrementClearsTtl ==
    /\ (ret.op \in {"increment", "decrement"} /\ ret.raised = "") =>
            /\ DictHas(cache, ret.key)
            /\ cache[ret.key].expires_at = None
    /\ (ret.op = "ttl" /\ lastWrite[ret.key].op = "increment"
        /\ lastExpire[ret.key] = None) => ret.int = 0 - 1
    /\ (ret.op = "get" /\ lastWrite[ret.key].op = "increment"
        /\ lastExpire[ret.key] = None) =>
            /\ IsSome(ret.val)
            /\ ParseInt(The(ret.val)) = ParseInt(lastWrite[ret.key].value)

\* an increment of a live entry that had an expiry
C5_Witness ==
    /\ ret.op = "increment"
    /\ ret.raised = ""
    /\ ret.before.had_expiry
    /\ IsSome(ret.before.read)
    /\ cache[ret.key].expires_at = None

\* C6: delete_pattern(p) removes exactly the stored keys that match p and
\* returns their number; afterwards keys(p) is empty and every other key
\* keeps its value and expiry.
C6_DeletePattern ==
    [][ ret'.op = "delete_pattern" =>
            LET matched == {key \in DOMAIN cache : fnmatch(key, ret'.pat)}
            IN  /\ DOMAIN cache' = DOMAIN cache \ matched
                /\ ret'.int = Cardinality(matched)
                /\ \A key \in DOMAIN cache' : cache'[key] = cache[key]
                /\ MatchingKeys(cache', ret'.pat) = {}
      ]_vars

\* a delete_pattern that removed one key and left another
C6_Witness ==
    /\ ret.op = "delete_pattern"
    /\ ret.int = 1
    /\ cache # EmptyDict

\* the dict and the history agree on what every key holds
CacheHistoryOK ==
    kind = "cache" => \A key \in CacheKeys : GetValue(cache, key, now) = HeldValue(key)

----------------------------------------------------------------------------
(* Statements about the entity repositories *)

\* the dict of the repository this behaviour drives
Store ==
    CASE kind = "strategies" -> strategies
      [] kind = "orders" -> orders
      [] kind = "trades" -> trades
      [] kind = "positions" -> positions
      [] kind = "services" -> services
      [] OTHER -> cache

\* C7 (SpecEntities): in each of the four entity repositories get_by_id(e.id)
\* right after create(e) returns e; get_by_id(id) right after delete(id)
\* returns absent; and delete(id) leaves every other stored entity in place,
\* unchanged.
C7_CreateGetDelete ==
    [][ /\ (ret.op = "create" /\ ret'.op = "get_by_id" /\ ret'.id = ret.id) =>
                ret'.val = Some(ret.entity)
        /\ (ret.op = "delete" /\ ret'.op = "get_by_id" /\ ret'.id = ret.id) =>
                ret'.val = None
        /\ ret'.op = "delete" =>
                /\ ~DictHas(Store', ret'.id)
                /\ \A id \in DOMAIN Store \ {ret'.id} :
                        DictLookup(Store', id) = Some(Store[id])
      ]_vars

\* a delete that removed a stored position and left the other one
C7_Witness ==
    /\ kind = "positions"
    /\ ret.op = "delete"
    /\ ret.found
    /\ positions # EmptyDict

MutationOps ==
    {"update", "update_status", "update_fill", "update_pnl", "update_price",
     "update_market_data", "close_position", "cancel", "cancel_order", "delete",
     "update_heartbeat", "deregister"}

\* C8 (Spec): a mutation naming an id that is not stored returns without
\* raising, inserts nothing and leaves every stored entity as it was; so do
\* the cache's delete and expire on a key that is not stored.
C8_MissingIdNoOp ==
    [][ /\ (kind # "cache" /\ ret'.op \in MutationOps /\ ~DictHas(Store, ret'.id)) =>
                /\ ret'.raised = ""
                /\ UNCHANGED <<strategies, orders, trades, positions, services, cache>>
        /\ (kind = "cache" /\ ret'.op \in {"delete", "expire"}
            /\ ~DictHas(cache, ret'.key)) =>
                /\ ret'.raised = ""
                /\ UNCHANGED <<strategies, orders, trades, positions, services, cache>>
      ]_vars

\* update_market_data on an id that is not stored, beside a stored position
C8_Witness ==
    /\ kind = "positions"
    /\ ret.op = "update_market_data"
    /\ ~ret.found
    /\ positions # EmptyDict

C10_CancelOrder ==
    (ret.op = "cancel_order" /\ ret.found) =>
        /\ ret.raised = ""
        /\ orders[ret.id].status = "cancelled"
        /\ orders[ret.id].cancelled_at = Some(ret.cancelled_at)

----------------------------------------------------------------------------
(* Statements about the positions repository *)

\* C11 (SpecPositions): update_market_data(position_id, price) on a stored
\* position sets current_price = price, market_value = quantity * price,
\* unrealized_pnl = (price - average_entry_price) * quantity,
\* total_pnl = realized_pnl + unrealized_pnl and exposure = |quantity| * price,
\* for long and short positions alike, and leaves quantity,
\* average_entry_price, realized_pnl and every other position unchanged.
C11_UpdateMarketData ==
    [][ (ret'.op = "update_market_data" /\ ret'.found) =>
            LET old == positions[ret'.id]
                new == positions'[ret'.id]
                price == ret'.current_price
                magnitude == IF old.quantity < 0 THEN 0 - old.quantity
                             ELSE old.quantity
            IN  /\ DOMAIN positions' = DOMAIN positions
                /\ new.current_price = price
                /\ new.market_value = old.quantity * price
                /\ new.unrealized_pnl =
                        (price - old.average_entry_price) * old.quantity
                /\ new.total_pnl = old.realized_pnl + new.unrealized_pnl
                /\ new.exposure = magnitude * price
                /\ new.quantity = old.quantity
                /\ new.average_entry_price = old.average_entry_price
                /\ new.realized_pnl = old.realized_pnl
                /\ new.strategy_id = old.strategy_id
                /\ new.closed_at = old.closed_at
                /\ \A other \in DOMAIN positions \ {ret'.id} :
                        positions'[other] = positions[other]
      ]_vars

\* a short position with a realized P&L, repriced from 1 to 2 beside
\* another stored position
C11_Witness ==
    /\ kind = "positions"
    /\ ret.op = "update_market_data"
    /\ ret.found
    /\ ret.current_price = 2
    /\ DictHas(positions, "p2")
    /\ positions[ret.id].quantity < 0
    /\ positions[ret.id].realized_pnl = 1
    /\ positions[ret.id].total_pnl = 0
    /\ positions[ret.id].exposure = 2

\* C12 (SpecPositions): a position is open if and only if its quantity is
\* non-zero and its closed_at is unset; get_open_positions returns exactly
\* the stored positions (of the given strategy, when one is given) that are
\* open in this sense, so a position closed by close_position is not
\* returned.
C12_OpenPositions ==
    ret.op = "get_open_positions" =>
        ret.list =
            {p \in DictValues(positions) :
                /\ p.quantity # 0
                /\ p.closed_at = None
                /\ IsSome(ret.strategy_id) => p.strategy_id = The(ret.strategy_id)}

\* what the stored position id adds to an aggregate of field over the open
\* positions in scope; closed tells whether closed_at counts
Contribution(id, field, strategy_id, closed) ==
    IF /\ DictHas(positions, id)
       /\ positions[id].quantity # 0
       /\ (closed => positions[id].closed_at = None)
       /\ (IsSome(strategy_id) => positions[id].strategy_id = The(strategy_id))
    THEN positions[id][field]
    ELSE 0

\* C13 (SpecPositions): calculate_total_exposure(strategy?) is the sum of
\* exposure, and calculate_total_unrealized_pnl(strategy?) the sum of
\* unrealized_pnl, over exactly the open positions (non-zero quantity,
\* closed_at unset) of the given strategy, or of all strategies when none is
\* given; other positions add nothing and the result is 0 when there are none.
C13_Aggregates ==
    /\ ret.op = "calculate_total_exposure" =>
            ret.val = Contribution("p1", "exposure", ret.strategy_id, TRUE)
                      + Contribution("p2", "exposure", ret.strategy_id, TRUE)
    /\ ret.op = "calculate_total_unrealized_pnl" =>
            ret.val = Contribution("p1", "unrealized_pnl", ret.strategy_id, TRUE)
                      + Contribution("p2", "unrealized_pnl", ret.strategy_id, TRUE)

\* the aggregates are the sums over the positions get_open_positions lists,
\* which are those with a non-zero quantity, closed or not
AggregatesSumNonZero ==
    /\ ret.op = "calculate_total_exposure" =>
            ret.val = Contribution("p1", "exposure", ret.strategy_id, FALSE)
                      + Contribution("p2", "exposure", ret.strategy_id, FALSE)
    /\ ret.op = "calculate_total_unrealized_pnl" =>
            ret.val = Contribution("p1", "unrealized_pnl", ret.strategy_id, FALSE)
                      + Contribution("p2", "unrealized_pnl", ret.strategy_id, FALSE)

----------------------------------------------------------------------------
(* Statements about the trades repository *)

\* what the stored trade id adds to a total asked for strategy_id between
\* from_date and to_date, value(t) being the amount a counted trade adds
Counted(id, strategy_id, from_date, to_date, value(_)) ==
    IF /\ DictHas(trades, id)
       /\ trades[id].strategy_id = strategy_id
       /\ (from_date = None \/ The(from_date) <= trades[id].executed_at)
       /\ (to_date = None \/ trades[id].executed_at <= The(to_date))
    THEN value(trades[id])
    ELSE 0

GrossValue(t) == t.gross_value
RealizedPnl(t) == IF t.realized_pnl = None THEN 0 ELSE The(t.realized_pnl)

\* C14 (SpecTrades): calculate_total_volume(strategy, from, to) is the sum of
\* gross_value, and calculate_total_pnl(strategy, from, to) the sum of
\* realized_pnl with null counted as 0, over exactly the trades of that
\* strategy with from <= executed_at <= to, both ends inclusive and an
\* omitted bound imposing no limit; other trades add nothing.
C14_TradeTotals ==
    /\ ret.op = "calculate_total_volume" =>
            ret.val = Counted("t1", ret.strategy_id, ret.from_date, ret.to_date,
                              GrossValue)
                      + Counted("t2", ret.strategy_id, ret.from_date, ret.to_date,
                                GrossValue)
    /\ ret.op = "calculate_total_pnl" =>
            ret.val = Counted("t1", ret.strategy_id, ret.from_date, ret.to_date,
                              RealizedPnl)
                      + Counted("t2", ret.strategy_id, ret.from_date, ret.to_date,
                                RealizedPnl)

\* the volume of a strategy from instant 2 to instant 3, with one of its
\* trades executed exactly at 2 (counted) and the other at 1 (not counted)
C14_Witness ==
    /\ ret.op = "calculate_total_volume"
    /\ ret.from_date = Some(2)
    /\ ret.to_date = Some(3)
    /\ DOMAIN trades = TradeIds
    /\ \A id \in TradeIds : trades[id].strategy_id = ret.strategy_id
    /\ trades["t1"].executed_at = 2
    /\ trades["t2"].executed_at = 1
    /\ ret.val = trades["t1"].gross_value

\* the place of a stored trade id in the insertion order of the store
InsertedAt(id) == CHOOSE i \in 1..Len(trades_order) : trades_order[i] = id

\* C15 (SpecTrades): get_recent_trades(limit), limit >= 0, returns
\* min(limit, n) of the n stored trades, ordered by executed_at
\* non-increasing; no omitted trade was executed later than a returned one;
\* trades executed at the same instant appear in insertion order, and among
\* them the ones inserted first are the ones returned, so the store contents
\* determine the result.
C15_RecentTrades ==
    (ret.op = "get_recent_trades" /\ ret.limit >= 0) =>
        LET n == Cardinality(DOMAIN trades)
            len == Len(ret.list)
            returned == {ret.list[i].trade_id : i \in 1..len}
        IN  /\ len = IF ret.limit < n THEN ret.limit ELSE n
            /\ Cardinality(returned) = len
            /\ \A i \in 1..len :
                    /\ DictHas(trades, ret.list[i].trade_id)
                    /\ ret.list[i] = trades[ret.list[i].trade_id]
            /\ \A i, j \in 1..len :
                    i < j =>
                        /\ ret.list[i].executed_at >= ret.list[j].executed_at
                        /\ ret.list[i].executed_at = ret.list[j].executed_at =>
                                InsertedAt(ret.list[i].trade_id)
                                    < InsertedAt(ret.list[j].trade_id)
            /\ \A id \in DOMAIN trades \ returned :
                    \A i \in 1..len :
                        /\ trades[id].executed_at <= ret.list[i].executed_at
                        /\ trades[id].executed_at = ret.list[i].executed_at =>
                                InsertedAt(ret.list[i].trade_id) < InsertedAt(id)

\* both stored trades, t2 inserted before t1 and executed at the same
\* instant, returned in that order
C15_Witness ==
    /\ ret.op = "get_recent_trades"
    /\ ret.limit = 3
    /\ trades_order = <<"t2", "t1">>
    /\ trades["t1"].executed_at = trades["t2"].executed_at
    /\ ret.list = <<trades["t2"], trades["t1"]>>

\* C16 (SpecTrades): trades are append-only and immutable: once create(t)
\* has stored trade id i, no operation of the trades repository (a later
\* create with the same trade_id and cleanup_old_trades included) modifies,
\* replaces or removes it, so get_by_id(i) returns t ever after.
C16_TradesImmutable ==
    [][ /\ \A id \in DOMAIN trades :
                DictHas(trades', id) /\ trades'[id] = trades[id]
        /\ (ret'.op = "get_by_id" /\ DictHas(trades, ret'.id)) =>
                ret'.val = Some(trades[ret'.id])
      ]_vars

----------------------------------------------------------------------------
(* Statements about the service registry *)

\* C17 (SpecServices): cleanup_stale_services(threshold) removes exactly the
\* registered services whose age now - last_seen is strictly greater than
\* threshold seconds and returns their number; every remaining service has
\* age <= threshold and is unchanged; the same call repeated at once
\* returns 0.
C17_CleanupStale ==
    [][ /\ ret'.op = "cleanup_stale_services" =>
                LET limit == ret'.threshold * TicksPerSecond
                    old == {id \in DOMAIN services : now - services[id].last_seen > limit}
                IN  /\ DOMAIN services' = DOMAIN services \ old
                    /\ ret'.val = Cardinality(old)
                    /\ \A id \in DOMAIN services' :
                            /\ services'[id] = services[id]
                            /\ now - services'[id].last_seen <= limit
        /\ (ret.op = "cleanup_stale_services" /\ ret'.op = "cleanup_stale_services"
            /\ ret'.threshold = ret.threshold) => ret'.val = 0
      ]_vars

\* a sweep with a threshold of one second that reaped one service and kept
\* the other, whose age is exactly one second
C17_Witness ==
    /\ ret.op = "cleanup_stale_services"
    /\ ret.threshold = 1
    /\ ret.val = 1
    /\ \E id \in DOMAIN services : now - services[id].last_seen = TicksPerSecond

----------------------------------------------------------------------------
(* Statements about the configuration *)

\* C19 (SpecConfig): explicit overrides always win: whenever postgres_schema
\* (respectively redis_namespace) is supplied to AdapterConfig, its final
\* value is the supplied value, for every service_name and
\* service_instance_name, and a field that was not supplied is still derived
\* by the rules.
C19_ExplicitOverrides ==
    ret.op = "AdapterConfig" =>
        LET given == ret.fields
            final == The(config)
        IN  /\ IsSome(given.postgres_schema) =>
                    final.postgres_schema = given.postgres_schema
            /\ IsSome(given.redis_namespace) =>
                    final.redis_namespace = given.redis_namespace
            /\ given.postgres_schema = None =>
                    final.postgres_schema =
                        Some(derive_schema_name(final.service_name,
                                                final.service_instance_name))
            /\ given.redis_namespace = None =>
                    final.redis_namespace =
                        Some(derive_redis_namespace(final.service_name,
                                                    final.service_instance_name))

\* an override that is not the empty string wins, and the field that was
\* not supplied is derived
NonEmptyOverridesWin ==
    ret.op = "AdapterConfig" =>
        LET given == ret.fields
            final == The(config)
        IN  /\ (IsSome(given.postgres_schema) /\ The(given.postgres_schema) # <<>>) =>
                    final.postgres_schema = given.postgres_schema
            /\ (IsSome(given.redis_namespace) /\ The(given.redis_namespace) # <<>>) =>
                    final.redis_namespace = given.redis_namespace
            /\ given.postgres_schema = None =>
                    final.postgres_schema =
                        Some(derive_schema_name(final.service_name,
                                                final.service_instance_name))
            /\ given.redis_namespace = None =>
                    final.redis_namespace =
                        Some(derive_redis_namespace(final.service_name,
                                                    final.service_instance_name))

\* the part of s before its first hyphen, all of s when it has none
BeforeFirstHyphen(s) ==
    LET k == CHOOSE k \in 0..Len(s) :
                /\ \A i \in 1..k : s[i] # "-"
                /\ k = Len(s) \/ s[k + 1] = "-"
    IN  SubSeq(s, 1, k)

\* C20 (SpecConfig): an empty service_instance_name becomes equal to
\* service_name; whenever service_instance_name equals service_name, the
\* derived schema and the derived namespace both are the part of
\* service_name before its first hyphen (all of it when it has no hyphen),
\* so schema = namespace.
C20_SingletonDerivation ==
    ret.op = "AdapterConfig" =>
        LET given == ret.fields
            final == The(config)
        IN  /\ final.service_name = given.service_name
            /\ given.service_instance_name = <<>> =>
                    final.service_instance_name = given.service_name
            /\ given.service_instance_name # <<>> =>
                    final.service_instance_name = given.service_instance_name
            /\ final.service_instance_name = final.service_name =>
                    /\ given.postgres_schema = None =>
                            final.postgres_schema =
                                Some(BeforeFirstHyphen(given.service_name))
                    /\ given.redis_namespace = None =>
                            final.redis_namespace =
                                Some(BeforeFirstHyphen(given.service_name))
                    /\ (given.postgres_schema = None /\ given.redis_namespace = None) =>
                            final.postgres_schema = final.redis_namespace

\* service_name "a-A" with no instance name and no override: schema and
\* namespace are "a"
C20_Witness ==
    /\ ret.op = "AdapterConfig"
    /\ ret.fields.service_name = <<"a", "-", "A">>
    /\ ret.fields.service_instance_name = <<>>
    /\ The(config).service_instance_name = <<"a", "-", "A">>
    /\ The(config).postgres_schema = Some(<<"a">>)
    /\ The(config).redis_namespace = Some(<<"a">>)

\* the configuration was constructed with an instance name of its own
MultiInstance ==
    /\ ret.op = "AdapterConfig"
    /\ ret.fields.service_instance_name # <<>>
    /\ ret.fields.service_instance_name # ret.fields.service_name

IsUpper(c) == \E u \in 1..Len(UpperCase) : UpperCase[u] = c

\* C21 (SpecConfig): whenever service_instance_name is non-empty and differs
\* from service_name, the derived schema is service_instance_name with every
\* hyphen replaced by an underscore and every letter lower-cased: it has the
\* length of the instance name, no hyphen and no upper-case letter.
C21_MultiInstanceSchema ==
    (MultiInstance /\ ret.fields.postgres_schema \in {None, Some(<<>>)}) =>
        LET instance == ret.fields.service_instance_name
            schema == The(The(config).postgres_schema)
        IN  /\ Len(schema) = Len(instance)
            /\ \A i \in 1..Len(instance) :
                    /\ instance[i] = "-" => schema[i] = "_"
                    /\ IsUpper(instance[i]) =>
                            \E u \in 1..Len(UpperCase) :
                                /\ UpperCase[u] = instance[i]
                                /\ schema[i] = LowerCase[u]
                    /\ (instance[i] # "-" /\ ~IsUpper(instance[i])) =>
                            schema[i] = instance[i]
                    /\ schema[i] # "-"
                    /\ ~IsUpper(schema[i])

\* instance "a-A-a" of service "a": the schema is "a_a_a"
C21_Witness ==
    /\ MultiInstance
    /\ ret.fields.service_name = <<"a">>
    /\ ret.fields.service_instance_name = <<"a", "-", "A", "-", "a">>
    /\ ret.fields.postgres_schema = None
    /\ The(config).postgres_schema = Some(<<"a", "_", "a", "_", "a">>)

\* the positions of the hyphens of s, and the k-th of them from the left
Hyphens(s) == {i \in 1..Len(s) : s[i] = "-"}
NthHyphen(s, k) ==
    CHOOSE i \in Hyphens(s) : Cardinality({j \in Hyphens(s) : j < i}) = k - 1

\* C22 (SpecConfig): when service_instance_name differs from service_name and
\* has at least two hyphens, so that it reads p0 "-" p1 "-" rest with no
\* hyphen in p0 and p1, the derived namespace is p0 "_" p1 ":" suffix, where
\* suffix is what follows the first hyphen of rest if rest has one and rest
\* itself otherwise, case preserved; with fewer than two hyphens the
\* namespace is the instance name with its hyphens replaced by underscores
\* and has no colon.
C22_MultiInstanceNamespace ==
    (MultiInstance /\ ret.fields.redis_namespace \in {None, Some(<<>>)}) =>
        LET instance == ret.fields.service_instance_name
            namespace == The(The(config).redis_namespace)
            n == Len(instance)
        IN  IF Cardinality(Hyphens(instance)) >= 2
            THEN LET h1 == NthHyphen(instance, 1)
                     h2 == NthHyphen(instance, 2)
                     p0 == SubSeq(instance, 1, h1 - 1)
                     p1 == SubSeq(instance, h1 + 1, h2 - 1)
                     suffix == IF Cardinality(Hyphens(instance)) >= 3
                               THEN SubSeq(instance, NthHyphen(instance, 3) + 1, n)
                               ELSE SubSeq(instance, h2 + 1, n)
                 IN  namespace = p0 \o <<"_">> \o p1 \o <<":">> \o suffix
            ELSE /\ Len(namespace) = n
                 /\ \A i \in 1..n :
                        namespace[i] = IF instance[i] = "-" THEN "_" ELSE instance[i]
                 /\ \A i \in 1..n : namespace[i] # ":"

\* instance "--a-A" of service "a": the parts are "", "" and "a-A", the
\* suffix is "A" and the namespace is "_:A"
C22_Witness ==
    /\ MultiInstance
    /\ ret.fields.service_name = <<"a">>
    /\ ret.fields.service_instance_name = <<"-", "-", "a", "-", "A">>
    /\ ret.fields.redis_namespace = None
    /\ The(config).redis_namespace = Some(<<"_", ":", "A">>)

\* both configurations of the pair are constructed
PairConstructed == \A i \in 1..2 : config[i].postgres_schema # None

\* C23 (SpecConfigPair): for one service_name, two configurations with
\* different service_instance_name values and no explicit override derive
\* different schemas and different namespaces.
C23_CollisionFree ==
    (/\ kind = "configs"
     /\ PairConstructed
     /\ config[1].service_instance_name # config[2].service_instance_name) =>
        /\ config[1].postgres_schema # config[2].postgres_schema
        /\ config[1].redis_namespace # config[2].redis_namespace

\* the schemas alone collide: instances that differ in case only
SchemasDiffer ==
    (/\ kind = "configs"
     /\ PairConstructed
     /\ config[1].service_instance_name # config[2].service_instance_name) =>
        config[1].postgres_schema # config[2].postgres_schema

\* the namespaces alone collide: the first segment after the second hyphen
\* is dropped
NamespacesDiffer ==
    (/\ kind = "configs"
     /\ PairConstructed
     /\ config[1].service_instance_name # config[2].service_instance_name) =>
        config[1].redis_namespace # config[2].redis_namespace

\* the entity of kind k is in the repository the adapter holds
Stored(k) == FacadeIds[k] \in DOMAIN StoreOfKind(k)

\* C24 (SpecAdapter): for each of the six kinds, every call of the accessor
\* returns the same instance (the first one constructed), at most one
\* instance of the kind is ever constructed, and what was written through it
\* stays in it and is read back, whatever connect, disconnect and health_check
\* steps come in between.
C24_OneInstancePerKind ==
    [][\A k \in Kinds :
            /\ adapter'.constructed[k] <= 1
            /\ IsSome(adapter.repos[k]) => adapter'.repos[k] = adapter.repos[k]
            /\ (ret'.op = "get_repository" /\ ret'.kind = k) => ret'.instance = 1
            /\ Stored(k) => Stored(k)'
            /\ (Stored(k) /\ ret'.op = "get_by_id" /\ ret'.kind = k) =>
                    ret'.val = Some(IF k = "cache" THEN FacadeItems[k].value
                                                   ELSE FacadeItems[k])]_vars

\* the cache accessor is called again after an entry was written through
\* it, a failed connect and a disconnect
C24_Witness ==
    /\ ret.op = "get_repository"
    /\ ret.kind = "cache"
    /\ ret.instance = 1
    /\ Stored("cache")
    /\ adapter.constructed["cache"] = 1
    /\ adapter.postgres_engine
    /\ IsSome(adapter.postgres_error)
    /\ ~adapter.postgres_connected
    /\ IsSome(adapter.last_postgres_check)

\* a connect() that found the backend unreachable
PostgresUnreachable ==
    ret.op = "connect" /\ ret.imports /\ ret.postgres # "ok"
RedisUnreachable ==
    ret.op = "connect" /\ ret.imports /\ ret.redis # "ok"

\* C25 (SpecAdapter): connect() never raises when PostgreSQL or Redis is
\* unreachable and leaves connected = false and the error set for that
\* backend; in every state of the adapter each accessor can be called and
\* returns a repository without raising.
C25_GracefulDegradation ==
    /\ ret.op = "connect" => ret.raised = ""
    /\ PostgresUnreachable =>
            ~adapter.postgres_connected /\ IsSome(adapter.postgres_error)
    /\ RedisUnreachable =>
            ~adapter.redis_connected /\ IsSome(adapter.redis_error)
    /\ ret.op = "get_repository" =>
            ret.raised = "" /\ adapter.repos[ret.kind] = Some(ret.instance)
    /\ ENABLED Adapter_get_repository(kind[2])

\* what does hold: connect() never raises and sets the error of a backend it
\* found unreachable, and the accessors work in every state
DegradesWithoutRaising ==
    /\ ret.op = "connect" => ret.raised = ""
    /\ PostgresUnreachable => IsSome(adapter.postgres_error)
    /\ RedisUnreachable => IsSome(adapter.redis_error)
    /\ ret.op = "get_repository" =>
            ret.raised = "" /\ adapter.repos[ret.kind] = Some(ret.instance)
    /\ ENABLED Adapter_get_repository(kind[2])

\* C26 (SpecAdapter): whenever postgres_connected is true, postgres_error is
\* None and last_postgres_check is set, and after a connect() whose
\* PostgreSQL probe failed postgres_connected is false; the same for Redis.
C26_StatusConsistent ==
    /\ adapter.postgres_connected =>
            adapter.postgres_error = None /\ IsSome(adapter.last_postgres_check)
    /\ adapter.redis_connected =>
            adapter.redis_error = None /\ IsSome(adapter.last_redis_check)
    /\ (ret.op = "connect" /\ ret.imports /\ ret.postgres = "probe_fails") =>
            ~adapter.postgres_connected
    /\ (ret.op = "connect" /\ ret.imports /\ ret.redis = "ping_fails") =>
            ~adapter.redis_connected

\* what does hold: a backend marked connected was probed with success once
CheckedWhenConnected ==
    /\ adapter.postgres_connected =>
            adapter.postgres_engine /\ IsSome(adapter.last_postgres_check)
    /\ adapter.redis_connected =>
            adapter.redis_client /\ IsSome(adapter.last_redis_check)

\* the counter a task increments, as it was before either task ran
InitialCount(t) ==
    IF tasks.of[t].key \in DOMAIN tasks.initial
    THEN ParseInt(tasks.initial[tasks.of[t].key].value)
    ELSE 0

\* C27, amended (SpecTasks): increment reads and writes back without a lock,
\* but between its read and its write the task never hands control back to
\* the event loop, so of two tasks that call increment on the same key at
\* most one is between read and write, the second reads what the first wrote,
\* and when both have returned the stored value is the old value plus both
\* amounts: no update is lost.
C27_NoLostUpdate ==
    kind = "tasks" =>
        /\ \A t \in TaskIds : tasks.of[t].pc = "got" => tasks.running = Some(t)
        /\ \A a, b \in TaskIds :
                (/\ a # b
                 /\ tasks.of[a].key = tasks.of[b].key
                 /\ tasks.of[a].pc = "done"
                 /\ tasks.of[b].pc = "done") =>
                    /\ tasks.of[a].current # tasks.of[b].current
                    /\ cache[tasks.of[a].key].value =
                            Str(InitialCount(a) + tasks.of[a].amount + tasks.of[b].amount)

\* both tasks ran increment(k, 1) on a counter that held "1": it holds "3"
C27_Witness ==
    /\ kind = "tasks"
    /\ \A t \in TaskIds :
            /\ tasks.of[t].pc = "done"
            /\ tasks.of[t].key = <<"p", "1">>
            /\ tasks.of[t].amount = 1
    /\ <<"p", "1">> \in DOMAIN tasks.initial
    /\ tasks.initial[<<"p", "1">>].value = <<"1">>
    /\ cache[<<"p", "1">>].value = <<"3">>

\* C27 as stated (SpecTasks): increment is not atomic under concurrent
\* callers: while one task has read the counter and not yet written it back,
\* the event loop can run the other task, which then reads the same old
\* value.
C27_ReadsInterleave ==
    kind = "tasks" =>
        \A a, b \in TaskIds :
            (/\ a # b
             /\ tasks.of[a].key = tasks.of[b].key
             /\ tasks.of[a].pc = "got"
             /\ tasks.of[b].pc = "ready") => ENABLED Loop_run(b)

\* C28 (SpecContract): a contract operation called with the parameter list
\* the contract declares is accepted and takes effect:
\* update_pnl(strategy_id, total_pnl, daily_pnl) sets both P&L fields of a
\* stored strategy, update_status(order_id, status, filled_quantity) and
\* get_by_strategy(strategy_id, from_date, to_date) do not raise.
C28_ContractImplemented ==
    /\ (ret.op = "update_pnl" /\ Len(ret.args) = 3) =>
            /\ ret.raised = ""
            /\ ret.found =>
                    /\ strategies[ret.id].total_pnl = ret.args[2]
                    /\ strategies[ret.id].daily_pnl = ret.args[3]
    /\ (ret.op = "update_status" /\ Len(ret.args) = 3) =>
            /\ ret.raised = ""
            /\ ret.found => orders[ret.id].status = ret.args[2]
    /\ (ret.op = "get_by_strategy" /\ Len(ret.args) = 3) => ret.raised = ""

\* what does hold: the calls that pass the stub's own parameter lists are
\* accepted
StubSignaturesAccepted ==
    /\ (ret.op = "update_pnl" /\ Len(ret.args) = 2) =>
            /\ ret.raised = ""
            /\ ret.found => strategies[ret.id].total_pnl = ret.args[2]
    /\ (ret.op = "update_status" /\ Len(ret.args) = 2) =>
            /\ ret.raised = ""
            /\ ret.found => orders[ret.id].status = ret.args[2]
    /\ (ret.op = "get_by_strategy" /\ Len(ret.args) = 1) => ret.raised = ""

\* C29 (SpecContract): increment_trade_count(strategy_id) on a stored
\* strategy increases its total_trades by exactly 1 and changes nothing else,
\* and total_trades is never negative.
C29_IncrementTradeCount ==
    [][(ret'.op = "increment_trade_count" /\ ret'.found) =>
            /\ strategies'[ret'.id] =
                    [strategies[ret'.id] EXCEPT !.total_trades = @ + 1]
            /\ \A id \in DOMAIN strategies' \ {ret'.id} :
                    id \in DOMAIN strategies /\ strategies'[id] = strategies[id]
            /\ \A id \in DOMAIN strategies' : strategies'[id].total_trades >= 0]_vars

\* what does hold: increment_trade_count changes nothing at all
IncrementTradeCountNoOp ==
    [][ret'.op = "increment_trade_count" => strategies' = strategies]_vars

TerminalStatuses == {"filled", "cancelled", "rejected", "expired"}

\* C30 (SpecOrders): once a stored order is in a terminal status, none of
\* update_status, update, cancel, cancel_order and update_fill moves it to a
\* different status, and a cancellation changes the status only of an order
\* that is pending, submitted, accepted or partially filled.
C30_StatusOnlyAdvances ==
    [][\A id \in DOMAIN orders \cap DOMAIN orders' :
            /\ (/\ ret'.op \in {"update_status", "update", "cancel",
                                "cancel_order", "update_fill"}
                /\ orders[id].status \in TerminalStatuses) =>
                    orders'[id].status = orders[id].status
            /\ (/\ ret'.op \in {"cancel", "cancel_order"}
                /\ orders'[id].status # orders[id].status) =>
                    orders[id].status \in {"pending", "submitted", "accepted",
                                           "partially_filled"}]_vars

\* update_fill alone never changes a status, and cancel_order changes none
\* either (it raises on every stored order)
FillKeepsStatus ==
    [][\A id \in DOMAIN orders \cap DOMAIN orders' :
            ret'.op \in {"update_fill", "cancel_order"} =>
                orders'[id].status = orders[id].status]_vars

\* C31 (SpecFills): every stored order has filled_quantity <= quantity,
\* whatever update_fill, update_status and cancel calls follow the creation
\* of orders with filled_quantity <= quantity.
C31_FilledWithinQuantity ==
    \A id \in DOMAIN orders : orders[id].filled_quantity <= orders[id].quantity

\* what does hold: update_status and cancel leave both quantities alone
StatusKeepsQuantities ==
    [][\A id \in DOMAIN orders \cap DOMAIN orders' :
            ret'.op \in {"update_status", "cancel"} =>
                /\ orders'[id].filled_quantity = orders[id].filled_quantity
                /\ orders'[id].quantity = orders[id].quantity]_vars

\* C32 (SpecJson): get_json(k) after set_json(k, obj), with no write to k in
\* between and before the expiry, returns obj, for every obj, the falsy ones
\* included; get_json of a key that is absent or has expired returns None.
C32_JsonRoundTrip ==
    ret.op = "get_json" =>
        LET w == lastWrite[ret.key]
            live == w.deadline = None \/ now < The(w.deadline)
        IN  /\ (w.op = "set" /\ live) => ret.val = w.obj
            /\ (w.op # "set" \/ ~live) => ret.val = JNull

\* the object 0, stored with a ttl, read back before the ttl runs out
C32_Witness ==
    /\ ret.op = "get_json"
    /\ lastWrite[ret.key].op = "set"
    /\ lastWrite[ret.key].obj = JInt(0)
    /\ IsSome(lastWrite[ret.key].deadline)
    /\ now > 0
    /\ now < The(lastWrite[ret.key].deadline)
    /\ ret.val = JInt(0)

\* a nested document comes back as it went in
NestedRoundTrip ==
    \A obj \in JsonValues : Loads(Dumps(obj)) = obj

\* key holds an entry whose expiry instant has been reached
ExpiredEntry(key) == DictHas(cache, key) /\ Expired(cache[key], now)

\* C33 (SpecCache): once the time has reached the expiry instant of the
\* entry of k, get(k) would return absent after every later step that is not
\* a write supplying a value for k (set, increment, decrement); expire(k, ttl)
\* in particular does not make the old value readable.
C33_ExpiredStaysExpired ==
    [][\A key \in CacheKeys :
            (/\ ExpiredEntry(key)
             /\ ~(ret'.op \in {"set", "increment", "decrement"} /\ ret'.key = key)) =>
                GetValue(cache', key, now') = None]_vars

\* what does hold: no step other than expire() and the writes of a value
\* makes an expired entry readable
OnlyExpireRevives ==
    [][\A key \in CacheKeys :
            (/\ ExpiredEntry(key)
             /\ ~(ret'.op \in {"set", "increment", "decrement", "expire"}
                  /\ ret'.key = key)) =>
                GetValue(cache', key, now') = None]_vars

\* the keys matching pat for which get would return a value
VisibleMatching(pat) ==
    {key \in CacheKeys : fnmatch(key, pat) /\ IsSome(GetValue(cache, key, now))}

\* C34 (SpecCache): keys(p) returns exactly the keys matching p for which
\* get would return a value at that instant, and delete_pattern(p) counts
\* exactly those; an entry that has expired and was not evicted is neither
\* listed nor counted.
C34_PatternsSeeVisible ==
    [][/\ ret'.op = "keys" => ret'.list = VisibleMatching(ret'.pat)
       /\ ret'.op = "delete_pattern" =>
            ret'.int = Cardinality(VisibleMatching(ret'.pat))]_vars

\* what does hold: every visible matching key is listed and counted
VisibleAreListed ==
    [][/\ ret'.op = "keys" => VisibleMatching(ret'.pat) \subseteq ret'.list
       /\ ret'.op = "delete_pattern" =>
            ret'.int >= Cardinality(VisibleMatching(ret'.pat))]_vars

\* C35 (SpecCache): a read or inspection (get, exists, ttl) of a key whose
\* entry has expired removes the entry, so after the call the key is no
\* longer in the store.
C35_InspectionEvicts ==
    [][\A key \in CacheKeys :
          (/\ ExpiredEntry(key)
           /\ ret'.op \in {"get", "exists", "ttl"}
           /\ ret'.key = key)
          => ~DictHas(cache', key)]_vars

\* what does hold: get and exists evict the expired entry they read, and
\* neither the passage of time nor a call naming another key removes one
ReadsEvict ==
    [][\A key \in CacheKeys :
          /\ (/\ ExpiredEntry(key)
              /\ ret'.op \in {"get", "exists"}
              /\ ret'.key = key)
             => ~DictHas(cache', key)
          /\ (/\ DictHas(cache, key)
              /\ \/ ret'.op = "tick"
                 \/ /\ ret'.op \in {"get", "exists", "ttl", "set", "delete",
                                    "expire"}
                    /\ ret'.key # key)
             => DictHas(cache', key)]_vars

\* the derived fields of a stored position agree with the fields they are
\* derived from
DerivedConsistent(pos) ==
    /\ pos.total_pnl = pos.realized_pnl + pos.unrealized_pnl
    /\ pos.exposure = Abs(pos.quantity) * pos.current_price

\* C36 (SpecPositions): every stored position, created with consistent
\* fields, has total_pnl = realized_pnl + unrealized_pnl and
\* exposure = |quantity| * current_price after any sequence of update_price,
\* update_pnl, update_market_data and close_position calls.
C36_DerivedFields ==
    \A position_id \in DOMAIN positions :
        DerivedConsistent(positions[position_id])

\* what does hold: update_market_data and close_position keep a consistent
\* position consistent; update_price and update_pnl are the calls that do not
MarketDataKeepsDerived ==
    [][\A position_id \in DOMAIN positions :
          (/\ DerivedConsistent(positions[position_id])
           /\ ret'.op \in {"update_market_data", "close_position"}
           /\ position_id \in DOMAIN positions')
          => DerivedConsistent(positions'[position_id])]_vars

\* the services a lookup or a listing has just returned
ReturnedServices ==
    IF ret.op \in {"get_service_by_id", "get_service"}
    THEN (IF IsSome(ret.val) THEN {The(ret.val)} ELSE {})
    ELSE IF ret.op \in {"list_services", "list_healthy_services"}
    THEN ret.list
    ELSE {}

\* C37 (SpecLifecycle): after deregister(id), or after
\* cleanup_stale_services has reaped id, the service is returned by no lookup
\* (get_service_by_id, get_service, list_services, list_healthy_services)
\* until register is called again for that id; update_heartbeat and
\* update_status on the removed id do not re-create it; and
\* list_healthy_services returns exactly the registered services whose status
\* is the string "healthy".
C37_ServiceLifecycle ==
    [][/\ \A service_id \in ServiceIds :
            /\ (ret'.op = "deregister" /\ ret'.id = service_id)
                    => ~DictHas(services', service_id)
            /\ (/\ ret'.op = "cleanup_stale_services"
                /\ DictHas(services, service_id)
                /\ now - services[service_id].last_seen
                        > ret'.threshold * TicksPerSecond)
                    => ~DictHas(services', service_id)
            /\ (~DictHas(services, service_id) /\ DictHas(services', service_id))
                    => (ret'.op = "register" /\ ret'.id = service_id)
       /\ \A s \in ReturnedServices' :
            /\ DictHas(services', s.service_id)
            /\ services'[s.service_id] = s
       /\ ret'.op = "list_healthy_services" =>
            ret'.list = {services'[service_id] :
                            service_id \in {x \in DOMAIN services' :
                                                services'[x].status = "healthy"}}
      ]_vars

\* deregister has removed a registered service while another one stays
C37_Witness ==
    /\ ret.op = "deregister"
    /\ ret.found
    /\ ~DictHas(services, ret.id)
    /\ \E service_id \in DOMAIN services :
            services[service_id].status \in OtherCaseStatuses

\* a sub-record of the health dict that reports a backend as connected and
\* without error
BackendUp(sub) == sub.connected /\ sub.error = None

\* C38 (SpecAdapter): health_check reports status "healthy" only when both
\* the postgres and the redis sub-record have connected = true and no error,
\* and "degraded" in every other case; the status is one of these two values.
C38_HealthyOnlyWhenConnected ==
    ret.op = "health_check" =>
        /\ ret.status \in {"healthy", "degraded"}
        /\ ret.status = "healthy" <=>
                (BackendUp(ret.postgres) /\ BackendUp(ret.redis))

\* what does hold: the status is one of the two values, and it is "degraded"
\* exactly when a probe raised, which is when a sub-record carries an error
DegradedWhenProbeRaised ==
    ret.op = "health_check" =>
        /\ ret.status \in {"healthy", "degraded"}
        /\ ret.status = "degraded" <=>
                (IsSome(ret.postgres.error) \/ IsSome(ret.redis.error))

\* what every repository instance other than the one just called returns
\* for every strategy_id
OthersReturn(objs, called) ==
    [r \in Instances \ {called} |->
        [strategy_id \in StrategyIds |-> StoredStrategy(objs, r, strategy_id)]]

\* C39 (SpecInstances): each repository instance exclusively owns its stored
\* state: no operation invoked on one repository instance changes what any
\* other repository instance returns.
C39_Isolation ==
    [][ret'.op \in {"create", "get_by_id", "update_status", "delete"} =>
            OthersReturn(objects', ret'.repo) = OthersReturn(objects, ret'.repo)
      ]_vars

\* no object is stored by both instances
NothingShared ==
    \A strategy_id \in DOMAIN objects.stores["a"] :
        DictHas(objects.stores["b"], strategy_id) =>
            objects.stores["a"][strategy_id] # objects.stores["b"][strategy_id]

\* what does hold: the dicts are separate, so a call on one instance never
\* changes which objects another one stores, and while no object is stored by
\* both instances it does not change what the other one returns either
IsolatedUnlessShared ==
    [][ret'.op \in {"create", "get_by_id", "update_status", "delete"} =>
            /\ \A r \in Instances \ {ret'.repo} :
                    objects'.stores[r] = objects.stores[r]
            /\ NothingShared =>
                    OthersReturn(objects', ret'.repo)
                        = OthersReturn(objects, ret'.repo)
      ]_vars

\* an AdapterConfig was constructed with no postgres_schema of its own, so
\* that the schema it holds is the derived one
SchemaDerived ==
    /\ ret.op = "AdapterConfig"
    /\ ret.fields.postgres_schema \in {None, Some(<<>>)}

\* C40 (SpecConfig): every derived (non-overridden) postgres_schema, in
\* singleton and in multi-instance mode, contains no hyphen and no upper-case
\* letter.
C40_SchemaPostgresSafe ==
    SchemaDerived =>
        LET schema == The(The(config).postgres_schema)
        IN  \A i \in 1..Len(schema) : schema[i] # "-" /\ ~IsUpper(schema[i])

\* what does hold: no derived schema contains a hyphen, and one derived in
\* multi-instance mode contains no upper-case letter
SchemaHasNoHyphen ==
    SchemaDerived =>
        LET schema == The(The(config).postgres_schema)
        IN  \A i \in 1..Len(schema) :
                /\ schema[i] # "-"
                /\ MultiInstance => ~IsUpper(schema[i])

====
